---- MODULE Spec2Model ----
(***************************************************************************)
(* FillWrds: the grid-placement engine (grid.js: generateGrid and its      *)
(* helpers), the filler source (alphabets.js: randomChar) and the          *)
(* selection validator (validator.js: checkSelection, isGameWon).          *)
(*                                                                         *)
(* Characters are one-letter strings.  A word is a sequence of characters. *)
(* A grid is a function from 0..size-1 to rows, a row a function from      *)
(* 0..size-1 to characters; an unset cell holds Null.  A JavaScript value  *)
(* that is "an object or null" (word, startCell of a SelectionResult, the  *)
(* return of normalizeSelection / getLineDirection / tryPlaceWord) is a    *)
(* set with at most one element: None for null, Some(x) for x.             *)
(***************************************************************************)
EXTENDS Integers, Sequences, FiniteSets, TLC

\* ------------------------------------------------------------------ bounds
MaxGridSize == 2
MaxWords == 2
MaxSelGridSize == 3
MaxSelLen == 3
MaxTargets == 2
MaxMarked == 1
MaxFound == 3
MaxTwiceLen == 2
MaxRecordCalls == 3
MaxCount == 2
MaxStartCalls == 2
LongGridSize == 3
MaxRetriesArg == 4
BoardSize == 3
MaxBoardSel == 3

\* ------------------------------------------------------------------ values
Null == "null"
None == {}
Some(x) == {x}
The(s) == CHOOSE x \in s : TRUE

Cell(r, c) == [row |-> r, col |-> c]

RECURSIVE Reverse(_)
Reverse(s) == IF s = <<>> THEN <<>> ELSE Append(Reverse(Tail(s)), Head(s))

\* String.prototype.toLowerCase on one UTF-16 unit of the modelled repertoire:
\* "A","B" have one-unit lowercase forms; "I" stands for U+0130, whose lowercase
\* is the two units "i" U+0307 (here "i","dot"); every other unit is unchanged.
LowerChar(ch) ==
  CASE ch = "A" -> <<"a">>
    [] ch = "B" -> <<"b">>
    [] ch = "I" -> <<"i", "dot">>
    [] OTHER -> <<ch>>

RECURSIVE toLowerCase(_)
toLowerCase(w) ==
  IF w = <<>> THEN <<>> ELSE LowerChar(Head(w)) \o toLowerCase(Tail(w))

\* ------------------------------------------------------------------ alphabets.js
\* Each alphabet is cut down to two of its letters.
ALPHABETS ==
  [en |-> <<"a", "b">>, ru |-> <<"zhe", "ya">>, be |-> <<"zhe", "ya">>, uk |-> <<"zhe", "ya">>]

\* Mutant: an unknown language code falls back to the Russian alphabet.
randomChar_FallbackRu(lang) ==
  LET alphabet == IF lang \in DOMAIN ALPHABETS THEN ALPHABETS[lang] ELSE ALPHABETS.ru
  IN  { alphabet[i] : i \in 1..Len(alphabet) }

\* randomChar(lang): the set of characters one call can return.
randomChar(lang) ==
  LET alphabet == IF lang \in DOMAIN ALPHABETS THEN ALPHABETS[lang] ELSE ALPHABETS.en
  IN  { alphabet[i] : i \in 1..Len(alphabet) }

\* ------------------------------------------------------------------ word-store.js
MAX_HISTORY == 20

\* The key of a history entry: `${lang}|${level}|${timestamp}`.
historyId(l, level, timestamp) == <<l, level, timestamp>>

\* The key of a words entry: `${lang}|${level}|${word}`.
wordId(l, level, word) == <<l, level, word>>

\* store.put(entry): the entry replaces the one that has its id, if any.
PutEntry(store, entry) == { e \in store : e.id # entry.id } \cup {entry}

\* entries.sort((a, b) => a.timestamp - b.timestamp)
RECURSIVE SortByTimestamp(_)
SortByTimestamp(entries) ==
  IF entries = {} THEN <<>>
  ELSE LET oldest == CHOOSE e \in entries : \A f \in entries : e.timestamp <= f.timestamp
       IN  <<oldest>> \o SortByTimestamp(entries \ {oldest})

\* Mutant: the entries of every lang+level are returned.
getHistory_AllPairs(store, l, level) == SortByTimestamp(store)

\* getHistory: the entries the index by-lang-level has for [lang, level],
\* oldest first.
getHistory(store, l, level) ==
  SortByTimestamp({ e \in store : e.lang = l /\ e.level = level })

\* arr.slice(-n)
SliceLast(seq, n) ==
  IF Len(seq) <= n THEN seq ELSE SubSeq(seq, Len(seq) - n + 1, Len(seq))

\* Mutant: the first MAX_HISTORY entries are taken, history.slice(0, MAX_HISTORY).
getRecentlyUsedWords_Oldest(store, l, level) ==
  LET history == getHistory(store, l, level)
      recent == SubSeq(history, 1, IF Len(history) <= MAX_HISTORY THEN Len(history) ELSE MAX_HISTORY)
  IN  UNION { { toLowerCase(recent[i].words[j]) : j \in 1..Len(recent[i].words) } :
              i \in 1..Len(recent) }

\* getRecentlyUsedWords: the lowercased words of the last MAX_HISTORY entries.
getRecentlyUsedWords(store, l, level) ==
  LET history == getHistory(store, l, level)
      recent == SliceLast(history, MAX_HISTORY)
  IN  UNION { { toLowerCase(recent[i].words[j]) : j \in 1..Len(recent[i].words) } :
              i \in 1..Len(recent) }

\* The order of the keys of the words store within one lang+level: by word.
KeyOrder == << <<"a">>, <<"a", "b">>, <<"b">>, <<"b", "a">> >>

\* The cursor loop of getWords: the words of lang+level in key order that are
\* not in used, up to limit of them.
CursorResults(store, l, level, used, limit) ==
  LET F[i \in 0..Len(KeyOrder)] ==
        IF i = 0 THEN <<>>
        ELSE IF /\ Len(F[i - 1]) < limit
                /\ \E e \in store : e.id = wordId(l, level, KeyOrder[i])
                /\ toLowerCase(KeyOrder[i]) \notin used
             THEN Append(F[i - 1], KeyOrder[i])
             ELSE F[i - 1]
  IN  F[Len(KeyOrder)]

\* shuffle(results).slice(0, count): the lists one call can return.
ShuffleSlice(results, count) ==
  LET n == IF Len(results) <= count THEN Len(results) ELSE count
  IN  { out \in [1..n -> { results[i] : i \in 1..Len(results) }] :
          \A i, j \in 1..n : i # j => out[i] # out[j] }

\* ------------------------------------------------------------------ grid.js
DIRECTIONS ==
  << <<0, 1>>, <<0, -1>>, <<1, 0>>, <<-1, 0>>,
     <<1, 1>>, <<1, -1>>, <<-1, 1>>, <<-1, -1>> >>

\* Mutant: two names listed in the wrong order.
DIRECTION_NAMES_Misordered ==
  << "right", "left", "down", "up",
     "down-right", "up-right", "down-left", "up-left" >>

DIRECTION_NAMES ==
  << "right", "left", "down", "up",
     "down-right", "down-left", "up-right", "up-left" >>

createEmptyGrid(size) == [r \in 0..(size - 1) |-> [c \in 0..(size - 1) |-> Null]]

\* grid.length
GridLength(g) == Cardinality(DOMAIN g)

\* Mutant: only the start cell is tested against the bounds.
canPlace_StartInBounds(g, word, row, col, dr, dc) ==
  LET size == GridLength(g)
      inside(r, c) == ~(r < 0 \/ r >= size \/ c < 0 \/ c >= size)
  IN  /\ inside(row, col)
      /\ \A i \in 0..(Len(word) - 1) :
           LET r == row + i * dr
               c == col + i * dc
           IN  inside(r, c) => ~(g[r][c] # Null /\ g[r][c] # word[i + 1])

\* Mutant: only the bounds are tested, not the letters already in the grid.
canPlace_IgnoreLetters(g, word, row, col, dr, dc) ==
  LET size == GridLength(g)
  IN  \A i \in 0..(Len(word) - 1) :
        LET r == row + i * dr
            c == col + i * dc
        IN  ~(r < 0 \/ r >= size \/ c < 0 \/ c >= size)

canPlace(g, word, row, col, dr, dc) ==
  LET size == GridLength(g)
  IN  \A i \in 0..(Len(word) - 1) :
        LET r == row + i * dr
            c == col + i * dc
        IN  /\ ~(r < 0 \/ r >= size \/ c < 0 \/ c >= size)
            /\ ~(g[r][c] # Null /\ g[r][c] # word[i + 1])

\* The grid after the loop of placeWord has written word[0..n-1].
RECURSIVE placeWordFrom(_, _, _, _, _, _, _)
placeWordFrom(g, word, row, col, dr, dc, i) ==
  IF i >= Len(word) THEN g
  ELSE placeWordFrom(
         [g EXCEPT ![row + i * dr][col + i * dc] = word[i + 1]],
         word, row, col, dr, dc, i + 1)

placeWord(g, word, row, col, dr, dc) == placeWordFrom(g, word, row, col, dr, dc, 0)

\* The placement descriptor tryPlaceWord returns for a feasible candidate.
PlacementOf(word, row, col, k) ==
  LET dr == DIRECTIONS[k][1]
      dc == DIRECTIONS[k][2]
  IN  [ word |-> word, row |-> row, col |-> col,
        direction |-> DIRECTION_NAMES[k], dr |-> dr, dc |-> dc,
        cells |-> [i \in 1..Len(word) |-> Cell(row + (i - 1) * dr, col + (i - 1) * dc)] ]

\* maxAttempts of tryPlaceWord
MAX_ATTEMPTS == 200

\* tryPlaceWord draws a permutation dirs of the 8 directions and then, for attempt
\* 0..199, a random (row, col), testing (row, col, dirs[attempt % 8]); it commits
\* the first feasible candidate.  A candidate can be the one committed iff it is
\* feasible (dirs may start with its direction and attempt 0 may draw its cell).
\* All attempts can fail iff every direction has some infeasible start cell, since
\* the attempts cycle through all 8 directions (MAX_ATTEMPTS >= 8).
CanCommit(g, word, row, col, k) ==
  canPlace(g, word, row, col, DIRECTIONS[k][1], DIRECTIONS[k][2])

CanExhaust(g, word) ==
  /\ MAX_ATTEMPTS >= Len(DIRECTIONS)
  /\ \A k \in 1..Len(DIRECTIONS) :
       { rc \in (0..(GridLength(g) - 1)) \X (0..(GridLength(g) - 1)) :
           ~CanCommit(g, word, rc[1], rc[2], k) } # {}

\* Mutant: a word goes in front of the earlier words of its own length.
RECURSIVE InsertByLength_Strict(_, _)
InsertByLength_Strict(sortedPart, w) ==
  IF sortedPart = <<>> THEN <<w>>
  ELSE IF Len(Head(sortedPart)) > Len(w)
       THEN <<Head(sortedPart)>> \o InsertByLength_Strict(Tail(sortedPart), w)
       ELSE <<w>> \o sortedPart

\* Array.prototype.sort with (a, b) => b.length - a.length: stable, longest first.
RECURSIVE InsertByLength(_, _)
InsertByLength(sortedPart, w) ==
  IF sortedPart = <<>> THEN <<w>>
  ELSE IF Len(Head(sortedPart)) >= Len(w)
       THEN <<Head(sortedPart)>> \o InsertByLength(Tail(sortedPart), w)
       ELSE <<w>> \o sortedPart

RECURSIVE SortByLength(_)
SortByLength(ws) ==
  IF ws = <<>> THEN <<>>
  ELSE InsertByLength(SortByLength(SubSeq(ws, 1, Len(ws) - 1)), ws[Len(ws)])

\* Mutant: Math.floor(2 * gridSize).
MaxLength_NoSqrt(size) == 2 * size

\* Math.floor(Math.sqrt(2) * gridSize)
MaxLength(size) ==
  CHOOSE k \in 0..(2 * size) : k * k <= 2 * size * size /\ (k + 1) * (k + 1) > 2 * size * size

\* ------------------------------------------------------------------ validator.js
\* Mutant: "down" and "up" exchanged.
ValidatorDirectionName_UpDown(dr, dc) ==
  CASE dr = 0 /\ dc = 1 -> "right"
    [] dr = 0 /\ dc = -1 -> "left"
    [] dr = 1 /\ dc = 0 -> "up"
    [] dr = -1 /\ dc = 0 -> "down"
    [] dr = 1 /\ dc = 1 -> "down-right"
    [] dr = 1 /\ dc = -1 -> "down-left"
    [] dr = -1 /\ dc = 1 -> "up-right"
    [] dr = -1 /\ dc = -1 -> "up-left"
    [] OTHER -> Null

\* DIRECTION_NAMES of validator.js, keyed by `${dr},${dc}`; Null when absent.
ValidatorDirectionName(dr, dc) ==
  CASE dr = 0 /\ dc = 1 -> "right"
    [] dr = 0 /\ dc = -1 -> "left"
    [] dr = 1 /\ dc = 0 -> "down"
    [] dr = -1 /\ dc = 0 -> "up"
    [] dr = 1 /\ dc = 1 -> "down-right"
    [] dr = 1 /\ dc = -1 -> "down-left"
    [] dr = -1 /\ dc = 1 -> "up-right"
    [] dr = -1 /\ dc = -1 -> "up-left"
    [] OTHER -> Null

\* Mutant: only the first pair's delta is looked at.
getLineDirection_FirstPairOnly(cells) ==
  IF Len(cells) < 2 THEN Some([dr |-> 0, dc |-> 0, dirName |-> Null])
  ELSE
    LET dr == cells[2].row - cells[1].row
        dc == cells[2].col - cells[1].col
        dirName == ValidatorDirectionName(dr, dc)
    IN  IF dirName = Null /\ Len(cells) > 1 THEN None
        ELSE Some([dr |-> dr, dc |-> dc, dirName |-> dirName])

\* Mutant: a constant delta is accepted whether or not it has a name.
getLineDirection_AnyDelta(cells) ==
  IF Len(cells) < 2 THEN Some([dr |-> 0, dc |-> 0, dirName |-> Null])
  ELSE
    LET dr == cells[2].row - cells[1].row
        dc == cells[2].col - cells[1].col
        dirName == ValidatorDirectionName(dr, dc)
    IN  IF \E i \in 2..Len(cells) :
             \/ cells[i].row - cells[i - 1].row # dr
             \/ cells[i].col - cells[i - 1].col # dc
        THEN None
        ELSE Some([dr |-> dr, dc |-> dc, dirName |-> dirName])

getLineDirection(cells) ==
  IF Len(cells) < 2 THEN Some([dr |-> 0, dc |-> 0, dirName |-> Null])
  ELSE
    LET dr == cells[2].row - cells[1].row
        dc == cells[2].col - cells[1].col
        dirName == ValidatorDirectionName(dr, dc)
    IN  IF \E i \in 2..Len(cells) :
             \/ cells[i].row - cells[i - 1].row # dr
             \/ cells[i].col - cells[i - 1].col # dc
        THEN None
        ELSE IF dirName = Null /\ Len(cells) > 1 THEN None
        ELSE Some([dr |-> dr, dc |-> dc, dirName |-> dirName])

\* Mutant: a cell is dropped when it repeats any earlier cell.
RECURSIVE DedupFrom_AllRepeats(_, _)
DedupFrom_AllRepeats(cells, i) ==
  IF i > Len(cells) THEN <<>>
  ELSE IF \A j \in 1..(i - 1) : cells[j] # cells[i]
       THEN <<cells[i]>> \o DedupFrom_AllRepeats(cells, i + 1)
       ELSE DedupFrom_AllRepeats(cells, i + 1)

\* cells.filter((c, i) => i === 0 || c differs from cells[i - 1])
RECURSIVE DedupFrom(_, _)
DedupFrom(cells, i) ==
  IF i > Len(cells) THEN <<>>
  ELSE IF i = 1 \/ cells[i].row # cells[i - 1].row \/ cells[i].col # cells[i - 1].col
       THEN <<cells[i]>> \o DedupFrom(cells, i + 1)
       ELSE DedupFrom(cells, i + 1)

\* Mutant: a selection of one cell is rejected like a bent one.
normalizeSelection_SingleRejected(cells) ==
  IF Len(cells) = 0 THEN None
  ELSE
    LET deduped == DedupFrom(cells, 1)
    IN  IF Len(deduped) <= 1 THEN None
        ELSE IF getLineDirection(deduped) # None THEN Some(deduped) ELSE None

normalizeSelection(cells) ==
  IF Len(cells) = 0 THEN None
  ELSE
    LET deduped == DedupFrom(cells, 1)
    IN  IF Len(deduped) = 0 THEN None
        ELSE IF Len(deduped) = 1 THEN Some(deduped)
        ELSE IF getLineDirection(deduped) # None THEN Some(deduped) ELSE None

EMPTY ==
  [valid |-> FALSE, found |-> FALSE, word |-> None, direction |-> Null,
   startCell |-> None, cells |-> <<>>]

\* Mutant: the cells are returned in the player's order on a reversed match.
MatchedCells_NoReverse(normalized, forward, backward) == normalized

\* Mutant: the reversed string is preferred over the forward one.
MatchedCells_BackwardFirst(normalized, forward, backward) ==
  IF backward THEN Reverse(normalized) ELSE normalized

\* matchedCells: the selection as given on a forward match (or none), reversed
\* when only the reversed string matched.
MatchedCells(normalized, forward, backward) ==
  IF ~forward /\ backward THEN Reverse(normalized) ELSE normalized

\* Mutant: the target words are compared as given.
TargetSet_AsGiven(targetWords) == { targetWords[i] : i \in 1..Len(targetWords) }

\* new Set(targetWords.map(w => w.toLowerCase()))
TargetSet(targetWords) == { toLowerCase(targetWords[i]) : i \in 1..Len(targetWords) }

\* Mutant: only the row is tested against the grid size.
OutOfBounds_RowOnly(normalized, size) ==
  \E i \in 1..Len(normalized) : normalized[i].row < 0 \/ normalized[i].row >= size

\* Mutant: only the column is tested against the grid size.
OutOfBounds_ColOnly(normalized, size) ==
  \E i \in 1..Len(normalized) : normalized[i].col < 0 \/ normalized[i].col >= size

\* The bounds loop: some cell of normalized lies outside [0, size) on an axis.
OutOfBounds(normalized, size) ==
  \E i \in 1..Len(normalized) :
    \/ normalized[i].row < 0 \/ normalized[i].row >= size
    \/ normalized[i].col < 0 \/ normalized[i].col >= size

\* grid[row][col] as join('') renders it: the cell's letter, or nothing for the
\* undefined that a column outside the row gives.
LetterAt(g, cell) ==
  IF cell.row \in DOMAIN g /\ cell.col \in DOMAIN g[cell.row]
  THEN <<g[cell.row][cell.col]>> ELSE <<>>

\* normalized.map(({ row, col }) => grid[row][col]).join('')
RECURSIVE SelectedString(_, _)
SelectedString(g, normalized) ==
  IF normalized = <<>> THEN <<>>
  ELSE LetterAt(g, Head(normalized)) \o SelectedString(g, Tail(normalized))

\* Mutant: a selection that matches nothing gets the invalid result.
NotFoundResult_Empty(normalized) == EMPTY

\* The result for a valid selection that matches no target word.
NotFoundResult(normalized) ==
  [valid |-> TRUE, found |-> FALSE, word |-> None, direction |-> Null,
   startCell |-> None, cells |-> normalized]

checkSelection(g, cells, targetWords) ==
  LET normalizedOpt == normalizeSelection(cells)
  IN
  IF normalizedOpt = None THEN EMPTY
  ELSE
    LET normalized == The(normalizedOpt)
        size == GridLength(g)
    IN
    IF OutOfBounds(normalized, size)
    THEN EMPTY
    ELSE
      LET selected == SelectedString(g, normalized)
          reversed == Reverse(selected)
          targetSet == TargetSet(targetWords)
          forward == toLowerCase(selected) \in targetSet
          backward == toLowerCase(reversed) \in targetSet
          matchedWord == IF forward THEN Some(toLowerCase(selected))
                         ELSE IF backward THEN Some(toLowerCase(reversed))
                         ELSE None
          matchedCells == MatchedCells(normalized, forward, backward)
      IN
      IF matchedWord = None \/ matchedWord = Some(<<>>)
      THEN NotFoundResult(normalized)
      ELSE
        LET lineDir == getLineDirection(matchedCells)
        IN  [valid |-> TRUE, found |-> TRUE, word |-> matchedWord,
             direction |-> IF lineDir = None THEN Null ELSE The(lineDir).dirName,
             startCell |-> Some(matchedCells[1]), cells |-> matchedCells]

\* The cells whose grid[row][col] one call evaluates: those of the normalized
\* selection, and only when the call gets past the bounds loop.
GridReads(g, cells) ==
  LET normalizedOpt == normalizeSelection(cells)
  IN  IF normalizedOpt = None THEN {}
      ELSE IF OutOfBounds(The(normalizedOpt), GridLength(g)) THEN {}
      ELSE { The(normalizedOpt)[i] : i \in 1..Len(The(normalizedOpt)) }

\* The call throws a TypeError iff it evaluates grid[row][col] for a row the grid
\* does not have (grid[row] is undefined); reads are the cells it evaluates.
Raises(g, reads) == \E cell \in reads : cell.row \notin DOMAIN g

\* Mutant: the reversal is done in place on the array the caller passed.
ArgumentsAfter_ReverseInPlace(g, cells, targetWords) ==
  LET r == checkSelection(g, cells, targetWords)
  IN  [grid |-> g,
       cells |-> IF r.found /\ r.cells # DedupFrom(cells, 1) THEN Reverse(cells) ELSE cells,
       targetWords |-> targetWords]

\* The caller's grid, cells and targetWords once the call is over.  The call
\* only reads them: filter, map, split and the spread make new arrays, and
\* reverse() is applied to those.
ArgumentsAfter(g, cells, targetWords) ==
  [grid |-> g, cells |-> cells, targetWords |-> targetWords]

\* Mutant: an empty target list counts as won.
isGameWon_EmptyWins(foundWords, targetWords) ==
  LET found == { toLowerCase(foundWords[i]) : i \in 1..Len(foundWords) }
  IN  \A i \in 1..Len(targetWords) : toLowerCase(targetWords[i]) \in found

isGameWon(foundWords, targetWords) ==
  IF Len(targetWords) = 0 THEN FALSE
  ELSE
    LET found == { toLowerCase(foundWords[i]) : i \in 1..Len(foundWords) }
    IN  \A i \in 1..Len(targetWords) : toLowerCase(targetWords[i]) \in found

\* ------------------------------------------------------------------ inputs
\* Words offered to generateGrid: the empty word, one letter, mixed case,
\* a palindrome, three letters, and a word whose lowercase form is longer.
Vocabulary ==
  { <<>>, <<"a">>, <<"A", "b">>, <<"b", "a">>, <<"a", "a">>,
    <<"a", "b", "a">>, <<"I">> }

Langs == {"en", "ru", "xx"}

SeqsUpTo(S, n) == UNION { [1..k -> S] : k \in 0..n }

\* Grids handed to checkSelection on its own: every cell holds "a", except at
\* most MaxMarked cells that hold "B".
SelGrids(n) ==
  { g \in [0..(n - 1) -> [0..(n - 1) -> {"a", "B"}]] :
      Cardinality({ rc \in (0..(n - 1)) \X (0..(n - 1)) : g[rc[1]][rc[2]] = "B" }) <= MaxMarked }

\* Selections: up to MaxSelLen cells, each coordinate from one below the grid to
\* one past it.
SelCellsOf(n) == { Cell(r, c) : r \in -1..n, c \in -1..n }
Selections(n) == SeqsUpTo(SelCellsOf(n), MaxSelLen)

TargetVocabulary == { <<"a", "b">>, <<"B", "A">>, <<"a", "a", "b">> }
TargetLists == SeqsUpTo(TargetVocabulary, MaxTargets)

\* Words handed to isGameWon.
WonVocabulary == { <<"a", "b">>, <<"A", "B">>, <<"b", "a">>, <<"a">> }

\* ------------------------------------------------------------------ state
VARIABLES
  words,       \* generateGrid argument
  gridSize,    \* generateGrid argument
  lang,        \* generateGrid argument
  pc,          \* "place": the for-of loop; "fill"; "done": generateGrid returned;
               \* "checked": checkSelection returned on a placement;
               \* "select" / "selected": before / after checkSelection alone
  sorted,      \* generateGrid local
  idx,         \* 1-based position of the for-of loop in sorted
  grid,
  placements,
  skipped,
  tried,       \* history: the words tryPlaceWord was called with, in call order
  selCells,    \* cells argument of the last checkSelection call
  selTargets,  \* targetWords argument of the last checkSelection call
  result,      \* None before any call and when the call threw, else Some(SelectionResult)
  gridReads,   \* history: the cells whose letter the last call read from the grid
  raised,      \* the last checkSelection call threw
  argsAfter,   \* None before any call, else Some of the caller's grid, cells and
               \* targetWords as they are after the call
  wonFound,    \* foundWords argument of isGameWon
  wonTargets,  \* targetWords argument of isGameWon
  won,         \* None before the call, Some(the boolean isGameWon returned) after
  firstCall,   \* None, or Some of the arguments and the result of an earlier
               \* checkSelection call that the caller will repeat
  dirs,        \* tryPlaceWord local: the shuffled directions, as indices into DIRECTIONS
  attempt,     \* tryPlaceWord local: the loop counter
  tested,      \* history: candidates handed to canPlace in the current tryPlaceWord call
  gridAtCall,  \* history: the grid as it was when tryPlaceWord was called
  lastTest,    \* history: None, or Some of the attempt index and direction of the
               \* candidate tested last
  historyStore, \* IndexedDB object store "history": a set of entries, one per id
  wordsStore,  \* IndexedDB object store "words": a set of entries, one per id
  clock,       \* Date.now()
  recCalls,    \* the recordIteration calls: position and locals of each
  getCall,     \* the getWords call: position, arguments, locals and returned list
  recorded,    \* history: every history entry ever put, by id
  state,       \* main.js: the app state object
  ui,          \* whether the start button is disabled, and what <win-modal> shows
  startCalls,  \* the startGame calls: position and locals of each while it runs,
               \* and as history the calls it made so far to the word services
               \* and to generateGrid, the word list of a call that started a
               \* round, and the calls made by a call that failed
  recordCalls, \* history: the recordIteration calls endGame made, each with its
               \* arguments and the language and level selected at that moment
  wordList,    \* <word-list>: its _words
  gameBoard,   \* <game-board>: its _targetWords
  retryCall,   \* the withRetry call: position, arguments, locals, and as history
               \* what it did so far: invocations of fn, their outcomes, waits
  board,       \* <game-board>: its selection fields and the grid it shows
  boardOp      \* history: the listener that ran last, the selection it found
               \* and the events it dispatched

vars ==
  <<words, gridSize, lang, pc, sorted, idx, grid, placements, skipped, tried,
    selCells, selTargets, result, gridReads, raised, argsAfter,
    wonFound, wonTargets, won, firstCall,
    dirs, attempt, tested, gridAtCall, lastTest,
    historyStore, wordsStore, clock, recCalls, getCall, recorded,
    state, ui, startCalls, recordCalls, wordList, gameBoard,
    retryCall, board, boardOp>>

genVars == <<words, gridSize, lang, sorted, idx, grid, placements, skipped, tried>>
selVars == <<selCells, selTargets, result, gridReads, raised, argsAfter>>
wonVars == <<wonFound, wonTargets, won>>
tryVars == <<dirs, attempt, tested, gridAtCall, lastTest>>
storeVars == <<historyStore, wordsStore, clock, recCalls, getCall, recorded>>
appVars == <<state, ui, startCalls, recordCalls, wordList, gameBoard>>
compVars == <<retryCall, board, boardOp>>
auxVars == <<firstCall, tryVars, storeVars, appVars, compVars>>

\* No tryPlaceWord call is running.
TryIdle ==
  /\ dirs = <<>>
  /\ attempt = 0
  /\ tested = 0
  /\ gridAtCall = None
  /\ lastTest = None

\* The word store is not in use.
StoreIdle ==
  /\ historyStore = {}
  /\ wordsStore = {}
  /\ clock = 0
  /\ recCalls = <<>>
  /\ getCall = [pc |-> "idle"]
  /\ recorded = {}

\* main.js lines 34-43: the app state as the module creates it (startTime is
\* left out: it only feeds the elapsed time shown in the win dialog).
InitialState ==
  [lang |-> "en", level |-> "easy", gameLang |-> "en", gameLevel |-> "easy",
   words |-> <<>>, foundWords |-> <<>>, gameActive |-> FALSE]

\* The page as loaded: no startGame call made, the components empty.
AppIdle ==
  /\ state = InitialState
  /\ ui = [loading |-> FALSE, winModal |-> "closed"]
  /\ startCalls = <<>>
  /\ recordCalls = <<>>
  /\ wordList = <<>>
  /\ gameBoard = [targetWords |-> <<>>]

\* No withRetry call is made and no <game-board> is in use.
CompIdle ==
  /\ retryCall = [pc |-> "idle"]
  /\ board = [pc |-> "idle"]
  /\ boardOp = [op |-> "none"]

\* No repeated call is pending, no tryPlaceWord call is running, the word
\* store is not in use, the page is not in use, and neither are withRetry
\* and the <game-board> selection.
AuxIdle ==
  /\ firstCall = None
  /\ TryIdle
  /\ StoreIdle
  /\ AppIdle
  /\ CompIdle

\* generateGrid entered: grid created, result lists empty, words sorted.
Init ==
  /\ words \in SeqsUpTo(Vocabulary, MaxWords)
  /\ gridSize \in 1..MaxGridSize
  /\ lang \in Langs
  /\ pc = "place"
  /\ sorted = SortByLength(words)
  /\ idx = 1
  /\ grid = createEmptyGrid(gridSize)
  /\ placements = <<>>
  /\ skipped = <<>>
  /\ tried = <<>>
  /\ selCells = <<>>
  /\ selTargets = <<>>
  /\ result = None
  /\ gridReads = {}
  /\ raised = FALSE
  /\ argsAfter = None
  /\ wonFound = <<>>
  /\ wonTargets = <<>>
  /\ won = None
  /\ AuxIdle

\* Loop body, lines 397-404: the word is longer than the diagonal bound.
SkipTooLong ==
  /\ pc = "place" /\ idx <= Len(sorted)
  /\ LET word == sorted[idx]
         lower == toLowerCase(word)
     IN  /\ Len(lower) > MaxLength(gridSize)
         /\ skipped' = Append(skipped, word)
  /\ idx' = idx + 1
  /\ UNCHANGED <<words, gridSize, lang, pc, sorted, grid, placements, tried, selVars, wonVars, auxVars>>

\* Mutant: a committed word is pushed on skipped as well.
PlaceCommit_AlsoSkipped ==
  /\ pc = "place" /\ idx <= Len(sorted)
  /\ LET word == sorted[idx]
         lower == toLowerCase(word)
     IN  /\ ~(Len(lower) > MaxLength(gridSize))
         /\ \E row \in 0..(gridSize - 1), col \in 0..(gridSize - 1), k \in 1..Len(DIRECTIONS) :
              /\ CanCommit(grid, lower, row, col, k)
              /\ grid' = placeWord(grid, lower, row, col, DIRECTIONS[k][1], DIRECTIONS[k][2])
              /\ placements' = Append(placements, PlacementOf(lower, row, col, k))
         /\ tried' = Append(tried, lower)
         /\ skipped' = Append(skipped, word)
  /\ idx' = idx + 1
  /\ UNCHANGED <<words, gridSize, lang, pc, sorted, selVars, wonVars, auxVars>>

\* Loop body, lines 406-408: tryPlaceWord commits a feasible candidate.
PlaceCommit ==
  /\ pc = "place" /\ idx <= Len(sorted)
  /\ LET word == sorted[idx]
         lower == toLowerCase(word)
     IN  /\ ~(Len(lower) > MaxLength(gridSize))
         /\ \E row \in 0..(gridSize - 1), col \in 0..(gridSize - 1), k \in 1..Len(DIRECTIONS) :
              /\ CanCommit(grid, lower, row, col, k)
              /\ grid' = placeWord(grid, lower, row, col, DIRECTIONS[k][1], DIRECTIONS[k][2])
              /\ placements' = Append(placements, PlacementOf(lower, row, col, k))
         /\ tried' = Append(tried, lower)
  /\ idx' = idx + 1
  /\ UNCHANGED <<words, gridSize, lang, pc, sorted, skipped, selVars, wonVars, auxVars>>

\* Mutant: a word that finds no place makes generateGrid throw.
PlaceGiveUp_Throws ==
  /\ pc = "place" /\ idx <= Len(sorted)
  /\ LET lower == toLowerCase(sorted[idx])
     IN  /\ ~(Len(lower) > MaxLength(gridSize))
         /\ CanExhaust(grid, lower)
         /\ tried' = Append(tried, lower)
  /\ pc' = "error"
  /\ UNCHANGED <<words, gridSize, lang, sorted, idx, grid, placements, skipped, selVars, wonVars, auxVars>>

\* Mutant: the lowercased form of a word that finds no place goes on skipped.
PlaceGiveUp_SkipsLowered ==
  /\ pc = "place" /\ idx <= Len(sorted)
  /\ LET word == sorted[idx]
         lower == toLowerCase(word)
     IN  /\ ~(Len(lower) > MaxLength(gridSize))
         /\ CanExhaust(grid, lower)
         /\ skipped' = Append(skipped, lower)
         /\ tried' = Append(tried, lower)
  /\ idx' = idx + 1
  /\ UNCHANGED <<words, gridSize, lang, pc, sorted, grid, placements, selVars, wonVars, auxVars>>

\* Loop body, lines 406-411: tryPlaceWord returns null after MAX_ATTEMPTS.
PlaceGiveUp ==
  /\ pc = "place" /\ idx <= Len(sorted)
  /\ LET word == sorted[idx]
         lower == toLowerCase(word)
     IN  /\ ~(Len(lower) > MaxLength(gridSize))
         /\ CanExhaust(grid, lower)
         /\ skipped' = Append(skipped, word)
         /\ tried' = Append(tried, lower)
  /\ idx' = idx + 1
  /\ UNCHANGED <<words, gridSize, lang, pc, sorted, grid, placements, selVars, wonVars, auxVars>>

\* The for-of loop is over.
LoopDone ==
  /\ pc = "place" /\ idx > Len(sorted)
  /\ pc' = "fill"
  /\ UNCHANGED <<genVars, selVars, wonVars, auxVars>>

\* Mutant: the inner loop stops one column early.
FillAndReturn_SkipLastColumn ==
  /\ pc = "fill"
  /\ LET unset == { <<r, c>> \in (0..(gridSize - 1)) \X (0..(gridSize - 2)) : grid[r][c] = Null }
     IN  \E filler \in [unset -> randomChar(lang)] :
           grid' = [r \in 0..(gridSize - 1) |-> [c \in 0..(gridSize - 1) |->
                      IF grid[r][c] = Null /\ c < gridSize - 1
                      THEN filler[<<r, c>>] ELSE grid[r][c]]]
  /\ pc' = "done"
  /\ UNCHANGED <<words, gridSize, lang, sorted, idx, placements, skipped, tried, selVars, wonVars, auxVars>>

\* Lines 414-423: every null cell gets its own randomChar(lang); then return.
FillAndReturn ==
  /\ pc = "fill"
  /\ LET unset == { <<r, c>> \in (0..(gridSize - 1)) \X (0..(gridSize - 1)) : grid[r][c] = Null }
     IN  \E filler \in [unset -> randomChar(lang)] :
           grid' = [r \in 0..(gridSize - 1) |-> [c \in 0..(gridSize - 1) |->
                      IF grid[r][c] = Null THEN filler[<<r, c>>] ELSE grid[r][c]]]
  /\ pc' = "done"
  /\ UNCHANGED <<words, gridSize, lang, sorted, idx, placements, skipped, tried, selVars, wonVars, auxVars>>

\* Mutant: the target Set of the previous call is kept and used again.
CalledOn_CachedTargets(g, cells, targetWords) ==
  /\ selCells' = cells
  /\ selTargets' = targetWords
  /\ gridReads' = GridReads(g, cells)
  /\ raised' = Raises(g, gridReads')
  /\ result' = IF raised' THEN None
               ELSE Some(checkSelection(g, cells,
                           IF selTargets # <<>> THEN selTargets ELSE targetWords))
  /\ argsAfter' = Some(ArgumentsAfter(g, cells, targetWords))

\* The effect of one call checkSelection(g, cells, targetWords): the result
\* depends on the three arguments alone, the function keeps nothing between
\* calls.
CalledOn(g, cells, targetWords) ==
  /\ selCells' = cells
  /\ selTargets' = targetWords
  /\ gridReads' = GridReads(g, cells)
  /\ raised' = Raises(g, gridReads')
  /\ result' = IF raised' THEN None
               ELSE Some(checkSelection(g, cells, targetWords))
  /\ argsAfter' = Some(ArgumentsAfter(g, cells, targetWords))

\* The call checkSelection(grid, cells, targetWords) on the current grid.
Called(cells, targetWords) == CalledOn(grid, cells, targetWords)

\* The caller validates a selection that traces a returned placement, in placement
\* order or backwards, against that placement's word.
CheckPlacement ==
  /\ pc = "done"
  /\ \E n \in 1..Len(placements), backwards \in BOOLEAN :
       LET p == placements[n]
           cells == IF backwards THEN Reverse(p.cells) ELSE p.cells
       IN  Called(cells, <<p.word>>)
  /\ pc' = "checked"
  /\ UNCHANGED <<genVars, wonVars, auxVars>>

Next ==
  \/ SkipTooLong
  \/ PlaceCommit
  \/ PlaceGiveUp
  \/ LoopDone
  \/ FillAndReturn
  \/ CheckPlacement

Spec == Init /\ [][Next]_vars

\* generateGrid alone, run to its return: the function is one sequential loop
\* over sorted, each tryPlaceWord call is bounded by MAX_ATTEMPTS, and the fill
\* loops are bounded by gridSize, so a step that can be taken is taken.
NextGen ==
  \/ SkipTooLong
  \/ PlaceCommit
  \/ PlaceGiveUp
  \/ LoopDone
  \/ FillAndReturn

SpecGen == Init /\ [][NextGen]_vars /\ WF_vars(NextGen)

\* ------------------------------------------------------------------ validator alone
\* checkSelection is a pure function of its arguments: any grid, any cells, any
\* target words.
InitSel ==
  /\ gridSize \in 1..MaxSelGridSize
  /\ grid \in SelGrids(gridSize)
  /\ pc = "select"
  /\ words = <<>>
  /\ lang = "en"
  /\ sorted = <<>>
  /\ idx = 1
  /\ placements = <<>>
  /\ skipped = <<>>
  /\ tried = <<>>
  /\ selCells = <<>>
  /\ selTargets = <<>>
  /\ result = None
  /\ gridReads = {}
  /\ raised = FALSE
  /\ argsAfter = None
  /\ wonFound = <<>>
  /\ wonTargets = <<>>
  /\ won = None
  /\ AuxIdle

\* One call checkSelection(grid, cells, targetWords) for some cells of sels and
\* some target list of lists.
CheckWith(sels, lists) ==
  /\ pc = "select"
  /\ \E cells \in sels, targetWords \in lists : Called(cells, targetWords)
  /\ pc' = "selected"
  /\ UNCHANGED <<genVars, wonVars, auxVars>>

CheckSelection == CheckWith(Selections(gridSize), TargetLists)

NextSel == CheckSelection

SpecSel == InitSel /\ [][NextSel]_vars

\* ------------------------------------------------------------------ tryPlaceWord by attempts
\* generateGrid with every attempt of tryPlaceWord as a step of its own.
TryVocabulary == { <<"a">>, <<"a", "b">>, <<"B", "a">>, <<"a", "b", "a">> }

\* Orders shuffle() can return for the 8 directions, as indices into DIRECTIONS.
DirOrders ==
  { <<1, 2, 3, 4, 5, 6, 7, 8>>, <<8, 7, 6, 5, 4, 3, 2, 1>>, <<3, 5, 1, 8, 2, 7, 4, 6>> }

InitTry ==
  /\ words \in SeqsUpTo(TryVocabulary, MaxWords)
  /\ gridSize \in 1..MaxGridSize
  /\ lang = "en"
  /\ pc = "place"
  /\ sorted = SortByLength(words)
  /\ idx = 1
  /\ grid = createEmptyGrid(gridSize)
  /\ placements = <<>>
  /\ skipped = <<>>
  /\ tried = <<>>
  /\ selCells = <<>>
  /\ selTargets = <<>>
  /\ result = None
  /\ gridReads = {}
  /\ raised = FALSE
  /\ argsAfter = None
  /\ wonFound = <<>>
  /\ wonTargets = <<>>
  /\ won = None
  /\ AuxIdle

\* Lines 406 and 340-341: tryPlaceWord is called and shuffles the directions.
TryStart ==
  /\ pc = "place" /\ idx <= Len(sorted)
  /\ LET lower == toLowerCase(sorted[idx])
     IN  /\ ~(Len(lower) > MaxLength(gridSize))
         /\ tried' = Append(tried, lower)
  /\ dirs' \in DirOrders
  /\ attempt' = 0
  /\ tested' = 0
  /\ gridAtCall' = Some(grid)
  /\ lastTest' = None
  /\ pc' = "trying"
  /\ UNCHANGED <<words, gridSize, lang, sorted, idx, grid, placements, skipped,
                 selVars, wonVars, firstCall, storeVars, appVars, compVars>>

\* Mutant: every attempt draws its direction at random.
TryAttempt_AnyDirection ==
  /\ pc = "trying" /\ attempt < MAX_ATTEMPTS
  /\ \E row \in 0..(gridSize - 1), col \in 0..(gridSize - 1), k \in 1..Len(DIRECTIONS) :
       LET word == toLowerCase(sorted[idx])
       IN  /\ lastTest' = Some([attempt |-> attempt, dir |-> k])
           /\ tested' = tested + 1
           /\ IF canPlace(grid, word, row, col, DIRECTIONS[k][1], DIRECTIONS[k][2])
              THEN /\ grid' = placeWord(grid, word, row, col, DIRECTIONS[k][1], DIRECTIONS[k][2])
                   /\ placements' = Append(placements, PlacementOf(word, row, col, k))
                   /\ idx' = idx + 1
                   /\ pc' = "place"
                   /\ UNCHANGED attempt
              ELSE /\ attempt' = attempt + 1
                   /\ UNCHANGED <<grid, placements, idx, pc>>
  /\ UNCHANGED <<words, gridSize, lang, sorted, skipped, tried, selVars, wonVars,
                 firstCall, dirs, gridAtCall, storeVars, appVars,
                 compVars>>

\* Lines 343-363: one pass of the attempt loop: a random row and col, the
\* direction dirs[attempt % dirs.length]; commit and return when canPlace holds.
TryAttempt ==
  /\ pc = "trying" /\ attempt < MAX_ATTEMPTS
  /\ \E row \in 0..(gridSize - 1), col \in 0..(gridSize - 1) :
       LET word == toLowerCase(sorted[idx])
           k == dirs[(attempt % Len(dirs)) + 1]
       IN  /\ lastTest' = Some([attempt |-> attempt, dir |-> k])
           /\ tested' = tested + 1
           /\ IF canPlace(grid, word, row, col, DIRECTIONS[k][1], DIRECTIONS[k][2])
              THEN /\ grid' = placeWord(grid, word, row, col, DIRECTIONS[k][1], DIRECTIONS[k][2])
                   /\ placements' = Append(placements, PlacementOf(word, row, col, k))
                   /\ idx' = idx + 1
                   /\ pc' = "place"
                   /\ UNCHANGED attempt
              ELSE /\ attempt' = attempt + 1
                   /\ UNCHANGED <<grid, placements, idx, pc>>
  /\ UNCHANGED <<words, gridSize, lang, sorted, skipped, tried, selVars, wonVars,
                 firstCall, dirs, gridAtCall, storeVars, appVars,
                 compVars>>

\* Lines 364 and 409-411: the loop ran out, tryPlaceWord returns null and the
\* word is pushed on skipped.
TryGiveUp ==
  /\ pc = "trying" /\ ~(attempt < MAX_ATTEMPTS)
  /\ skipped' = Append(skipped, sorted[idx])
  /\ idx' = idx + 1
  /\ pc' = "place"
  /\ UNCHANGED <<words, gridSize, lang, sorted, grid, placements, tried, selVars, wonVars,
                 auxVars>>

NextTry ==
  \/ SkipTooLong
  \/ TryStart
  \/ TryAttempt
  \/ TryGiveUp
  \/ LoopDone
  \/ FillAndReturn

SpecTry == InitTry /\ [][NextTry]_vars

\* The same steps on the smallest grid whose diagonal bound exceeds its side
\* (floor(sqrt(2) * 3) = 4): words of three, four and five units.
LongVocabulary ==
  { <<"a", "b", "a">>, <<"a", "b", "a", "b">>, <<"B", "a", "b", "a">>,
    <<"a", "b", "a", "b", "a">> }

InitLong ==
  /\ words \in SeqsUpTo(LongVocabulary, MaxWords)
  /\ gridSize = LongGridSize
  /\ lang = "en"
  /\ pc = "place"
  /\ sorted = SortByLength(words)
  /\ idx = 1
  /\ grid = createEmptyGrid(gridSize)
  /\ placements = <<>>
  /\ skipped = <<>>
  /\ tried = <<>>
  /\ selCells = <<>>
  /\ selTargets = <<>>
  /\ result = None
  /\ gridReads = {}
  /\ raised = FALSE
  /\ argsAfter = None
  /\ wonFound = <<>>
  /\ wonTargets = <<>>
  /\ won = None
  /\ AuxIdle

SpecLong == InitLong /\ [][NextTry]_vars

\* ------------------------------------------------------------------ word store
\* recordIteration calls, overlapping at their awaits, one getWords call and
\* addWords calls against the same IndexedDB stores.
Pairs == { <<"en", "easy">>, <<"ru", "easy">> }

HistoryEntry(l, level, timestamp, ws) ==
  [id |-> historyId(l, level, timestamp), lang |-> l, level |-> level,
   timestamp |-> timestamp, words |-> ws]

WordEntry(l, level, word) ==
  [id |-> wordId(l, level, word), lang |-> l, level |-> level, word |-> word]

\* The history after n games of en|easy at times 1..n - the first used the word
\* a, the second b - and one game of ru|easy at time 1.
PlayedHistory(n) ==
  { HistoryEntry("en", "easy", t,
                 IF t = 1 THEN << <<"a">> >> ELSE IF t = 2 THEN << <<"b">> >> ELSE <<>>) :
      t \in 1..n }
  \cup { HistoryEntry("ru", "easy", 1, << <<"a">> >>) }

InitStore ==
  /\ \E n \in (MAX_HISTORY - 1)..MAX_HISTORY :
       /\ historyStore = PlayedHistory(n)
       /\ recorded = PlayedHistory(n)
       /\ clock = n
  /\ wordsStore = { WordEntry("en", "easy", <<"a">>), WordEntry("en", "easy", <<"b">>),
                    WordEntry("en", "easy", <<"a", "b">>), WordEntry("ru", "easy", <<"b", "a">>) }
  /\ recCalls = [c \in 1..MaxRecordCalls |-> [pc |-> "idle"]]
  /\ getCall = [pc |-> "idle"]
  /\ pc = "store"
  /\ words = <<>>
  /\ gridSize = 1
  /\ lang = "en"
  /\ sorted = <<>>
  /\ idx = 1
  /\ grid = createEmptyGrid(1)
  /\ placements = <<>>
  /\ skipped = <<>>
  /\ tried = <<>>
  /\ selCells = <<>>
  /\ selTargets = <<>>
  /\ result = None
  /\ gridReads = {}
  /\ raised = FALSE
  /\ argsAfter = None
  /\ wonFound = <<>>
  /\ wonTargets = <<>>
  /\ won = None
  /\ firstCall = None
  /\ TryIdle
  /\ AppIdle
  /\ CompIdle

StoreFrame ==
  UNCHANGED <<pc, genVars, selVars, wonVars, firstCall, tryVars, appVars, compVars>>

\* Time passes.
Tick ==
  /\ clock < MAX_HISTORY + MaxRecordCalls
  /\ clock' = clock + 1
  /\ UNCHANGED <<historyStore, wordsStore, recCalls, getCall, recorded>>
  /\ StoreFrame

\* recordIteration(lang, level, usedWords) is called and awaits openDB().
RecordCall(c) ==
  /\ recCalls[c].pc = "idle"
  /\ \A b \in 1..(c - 1) : recCalls[b].pc # "idle"
  /\ \E pair \in Pairs :
       recCalls' = [recCalls EXCEPT ![c] =
                      [pc |-> "put", lang |-> pair[1], level |-> pair[2],
                       usedWords |-> << <<"A", "B">> >>]]
  /\ UNCHANGED <<historyStore, wordsStore, clock, getCall, recorded>>
  /\ StoreFrame

\* The timestamp is taken and the entry is put; the call awaits
\* the completion of the write transaction.
RecordPut(c) ==
  /\ recCalls[c].pc = "put"
  /\ LET call == recCalls[c]
         entry == HistoryEntry(call.lang, call.level, clock,
                               [i \in 1..Len(call.usedWords) |-> toLowerCase(call.usedWords[i])])
     IN  /\ historyStore' = PutEntry(historyStore, entry)
         /\ recorded' = PutEntry(recorded, entry)
         /\ recCalls' = [recCalls EXCEPT ![c].pc = "read"]
  /\ UNCHANGED <<wordsStore, clock, getCall>>
  /\ StoreFrame

\* The history of lang+level is read; the call returns when it
\* has at most MAX_HISTORY entries, else it notes the oldest ones.
RecordRead(c) ==
  /\ recCalls[c].pc = "read"
  /\ LET call == recCalls[c]
         history == getHistory(historyStore, call.lang, call.level)
     IN  recCalls' =
           IF Len(history) <= MAX_HISTORY
           THEN [recCalls EXCEPT ![c].pc = "done"]
           ELSE [recCalls EXCEPT ![c] =
                   [call EXCEPT !.pc = "prune"] @@
                   [toDelete |-> SubSeq(history, 1, Len(history) - MAX_HISTORY)]]
  /\ UNCHANGED <<historyStore, wordsStore, clock, getCall, recorded>>
  /\ StoreFrame

\* The noted entries are deleted by id in one transaction.
RecordPrune(c) ==
  /\ recCalls[c].pc = "prune"
  /\ LET toDelete == recCalls[c].toDelete
     IN  historyStore' =
           { e \in historyStore : \A i \in 1..Len(toDelete) : e.id # toDelete[i].id }
  /\ recCalls' = [recCalls EXCEPT ![c].pc = "done"]
  /\ UNCHANGED <<wordsStore, clock, getCall, recorded>>
  /\ StoreFrame

\* addWords(lang, level, words): every word is put in lowercase, in one
\* transaction.
AddWords ==
  /\ \E pair \in Pairs :
       wordsStore' = PutEntry(wordsStore, WordEntry(pair[1], pair[2], toLowerCase(<<"B", "A">>)))
  /\ wordsStore' # wordsStore
  /\ UNCHANGED <<historyStore, clock, recCalls, getCall, recorded>>
  /\ StoreFrame

\* getWords(lang, level, count) is called and awaits openDB().
GetCall ==
  /\ getCall.pc = "idle"
  /\ \E pair \in Pairs, count \in 0..MaxCount :
       getCall' = [pc |-> "history", lang |-> pair[1], level |-> pair[2], count |-> count]
  /\ UNCHANGED <<historyStore, wordsStore, clock, recCalls, recorded>>
  /\ StoreFrame

\* getRecentlyUsedWords reads the history in one transaction.
GetHistoryRead ==
  /\ getCall.pc = "history"
  /\ getCall' = [getCall EXCEPT !.pc = "cursor"] @@
                 [used |-> getRecentlyUsedWords(historyStore, getCall.lang, getCall.level),
                  historyAtRead |-> historyStore]
  /\ UNCHANGED <<historyStore, wordsStore, clock, recCalls, recorded>>
  /\ StoreFrame

\* The cursor runs over the words of lang+level in one readonly
\* transaction; the results are shuffled and cut to count.
GetCursor ==
  /\ getCall.pc = "cursor"
  /\ LET results == CursorResults(wordsStore, getCall.lang, getCall.level,
                                  getCall.used, getCall.count * 5)
     IN  \E out \in ShuffleSlice(results, getCall.count) :
           getCall' = [getCall EXCEPT !.pc = "done"] @@ [returned |-> out]
  /\ UNCHANGED <<historyStore, wordsStore, clock, recCalls, recorded>>
  /\ StoreFrame

\* recordIteration calls that overlap.
NextStore ==
  \/ Tick
  \/ \E c \in 1..MaxRecordCalls : RecordCall(c)
  \/ \E c \in 1..MaxRecordCalls : RecordPut(c)
  \/ \E c \in 1..MaxRecordCalls : RecordRead(c)
  \/ \E c \in 1..MaxRecordCalls : RecordPrune(c)

SpecStore == InitStore /\ [][NextStore]_vars

\* One getWords call beside one recordIteration call and addWords calls.
NextGet ==
  \/ Tick
  \/ RecordCall(1)
  \/ RecordPut(1)
  \/ RecordRead(1)
  \/ RecordPrune(1)
  \/ AddWords
  \/ GetCall
  \/ GetHistoryRead
  \/ GetCursor

SpecGet == InitStore /\ [][NextGet]_vars

\* ------------------------------------------------------------------ repeated calls
\* A caller holds a grid, calls checkSelection, lets other calls happen - other
\* selections, isGameWon, a generateGrid that builds a new grid - and then calls
\* checkSelection again with the grid, cells and targetWords of the first call.
TwiceSelections(n) ==
  SeqsUpTo({ Cell(r, c) : r \in 0..(n - 1), c \in 0..(n - 1) }, MaxTwiceLen)

TwiceTargetLists == SeqsUpTo(TargetVocabulary, 1)

InitTwice ==
  /\ InitSel
  /\ gridSize <= MaxGridSize

FirstCall ==
  /\ pc = "select"
  /\ \E cells \in TwiceSelections(gridSize), targetWords \in TwiceTargetLists :
       /\ Called(cells, targetWords)
       /\ firstCall' = Some([grid |-> grid, cells |-> cells, targetWords |-> targetWords,
                             result |-> result'])
  /\ pc' = "between"
  /\ UNCHANGED <<genVars, wonVars, tryVars, storeVars, appVars, compVars>>

\* Another checkSelection call, on the grid of the moment: the first selection
\* backwards or one cell, with any target list.
OtherCheck ==
  /\ pc = "between"
  /\ \E first \in firstCall :
       \E cells \in {Reverse(first.cells), <<Cell(0, 0)>>}, targetWords \in TwiceTargetLists :
         Called(cells, targetWords)
  /\ UNCHANGED <<pc, genVars, wonVars, auxVars>>

\* An isGameWon call.
OtherWon ==
  /\ pc = "between"
  /\ \E foundWords \in {<<>>, << <<"A", "B">> >>} :
       /\ wonFound' = foundWords
       /\ wonTargets' = << <<"a", "b">> >>
       /\ won' = Some(isGameWon(foundWords, << <<"a", "b">> >>))
  /\ UNCHANGED <<pc, genVars, selVars, auxVars>>

\* A generateGrid call: it builds its grid with createEmptyGrid and returns it;
\* the grid of the first call stays with the caller.
OtherGenerate ==
  /\ pc = "between"
  /\ grid' \in SelGrids(gridSize)
  /\ UNCHANGED <<pc, words, gridSize, lang, sorted, idx, placements, skipped, tried,
                 selVars, wonVars, auxVars>>

SecondCall ==
  /\ pc = "between"
  /\ \E first \in firstCall : CalledOn(first.grid, first.cells, first.targetWords)
  /\ pc' = "twice"
  /\ UNCHANGED <<genVars, wonVars, auxVars>>

NextTwice ==
  \/ FirstCall
  \/ OtherCheck
  \/ OtherWon
  \/ OtherGenerate
  \/ SecondCall

SpecTwice == InitTwice /\ [][NextTwice]_vars

\* ------------------------------------------------------------------ one cell
\* checkSelection on selections that are one cell, sampled up to MaxSelLen
\* times, against target lists that hold one-letter words.
CellSelections(n) ==
  { [i \in 1..k |-> c] : c \in SelCellsOf(n), k \in 1..MaxSelLen }

LetterVocabulary == { <<"a">>, <<"A">>, <<"b">>, <<"a", "b">>, <<"a", "a">> }
LetterTargetLists == SeqsUpTo(LetterVocabulary, MaxTargets)

CheckCell == CheckWith(CellSelections(gridSize), LetterTargetLists)

NextCell == CheckCell

SpecCell == InitSel /\ [][NextCell]_vars

\* ------------------------------------------------------------------ isGameWon alone
\* isGameWon is a pure function of its two lists.

InitWon ==
  /\ wonFound \in SeqsUpTo(WonVocabulary, MaxFound)
  /\ wonTargets \in SeqsUpTo(WonVocabulary, MaxTargets)
  /\ won = None
  /\ AuxIdle
  /\ pc = "play"
  /\ gridSize = 1
  /\ grid = createEmptyGrid(1)
  /\ words = <<>>
  /\ lang = "en"
  /\ sorted = <<>>
  /\ idx = 1
  /\ placements = <<>>
  /\ skipped = <<>>
  /\ tried = <<>>
  /\ selCells = <<>>
  /\ selTargets = <<>>
  /\ result = None
  /\ gridReads = {}
  /\ raised = FALSE
  /\ argsAfter = None

\* The call isGameWon(wonFound, wonTargets).
IsGameWon ==
  /\ pc = "play"
  /\ won' = Some(isGameWon(wonFound, wonTargets))
  /\ pc' = "judged"
  /\ UNCHANGED <<genVars, selVars, wonFound, wonTargets, auxVars>>

NextWon == IsGameWon

SpecWon == InitWon /\ [][NextWon]_vars

\* ------------------------------------------------------------------ main.js
\* levels.js: the level table, with the grid sizes cut down to the grid bound
\* (easy stays the smallest grid).
LEVELS ==
  [easy   |-> [wordCount |-> 10, gridSize |-> MaxGridSize - 1],
   medium |-> [wordCount |-> 15, gridSize |-> MaxGridSize],
   hard   |-> [wordCount |-> 20, gridSize |-> MaxGridSize]]

getLevel(id) == IF id \in DOMAIN LEVELS THEN LEVELS[id] ELSE LEVELS.easy

\* Languages and levels the pickers offer here.
AppLangs == {"en", "ru"}
AppLevels == {"easy", "medium"}

LongEnough(w) == Len(w) >= 2

\* parseCustomWords on the pieces between the commas (typed without blanks
\* around them): each piece lowercased, pieces under two units dropped.
parseCustomWords(raw) ==
  SelectSeq([i \in 1..Len(raw) |-> toLowerCase(raw[i])], LongEnough)

\* What the custom-words textarea can hold when startGame reads it: nothing,
\* two usable words and a one-letter piece, one usable word.
CustomInputs ==
  { <<>>, << <<"A", "B">>, <<"a">>, <<"b", "a">> >>, << <<"a", "b">>, <<"b">> >> }

\* Lists getWords can resolve with: enough words for a round (two of them
\* longer than any grid here takes), too few.
GetWordsResults ==
  { << <<"a", "b">>, <<"a", "b", "a", "b">>, <<"b", "a", "b", "a">> >>,
    << <<"a", "b">>, <<"b", "a">> >> }

\* endGame, the part that runs whether or not the game was won.
endGame(st) == [st EXCEPT !.gameActive = FALSE]

\* One call startGame made, with the language and level it passed.
ServiceCall(service, l, level, arg) ==
  [service |-> service, lang |-> l, level |-> level, arg |-> arg]

\* Mutant: getWords is called with the language and level selected at that moment.
CallGetWords_Selected(f) ==
  ServiceCall("getWords", state.lang, state.level, getLevel(state.level).wordCount)

\* Line 93: getWords(lang, level, wordCount) on the call's own constants.
CallGetWords(f) == ServiceCall("getWords", f.lang, f.level, f.wordCount)

\* Line 103: generateGrid(words, gridSize, lang).
CallGenerateGrid(f, ws) ==
  ServiceCall("generateGrid", f.lang, Null, [words |-> ws, gridSize |-> f.gridSize])

\* generateGrid entered with these arguments: grid created, result lists
\* empty, words sorted.
EnterGenerateGrid(ws, size, l) ==
  /\ words' = ws
  /\ gridSize' = size
  /\ lang' = l
  /\ sorted' = SortByLength(ws)
  /\ idx' = 1
  /\ grid' = createEmptyGrid(size)
  /\ placements' = <<>>
  /\ skipped' = <<>>
  /\ tried' = <<>>
  /\ pc' = "place"

\* generateGrid has returned and its result has been used: its locals are gone.
LeaveGenerateGrid ==
  /\ words' = <<>>
  /\ gridSize' = 1
  /\ lang' = "en"
  /\ sorted' = <<>>
  /\ idx' = 1
  /\ grid' = createEmptyGrid(1)
  /\ placements' = <<>>
  /\ skipped' = <<>>
  /\ tried' = <<>>
  /\ pc' = "app"

\* The page as loaded, lines 229-243: language and level restored from
\* localStorage, no game, no startGame call made.
InitApp ==
  /\ \E l \in AppLangs, level \in AppLevels :
       state = [InitialState EXCEPT !.lang = l, !.level = level]
  /\ ui = [loading |-> FALSE, winModal |-> "closed"]
  /\ startCalls = [c \in 1..MaxStartCalls |-> [pc |-> "idle"]]
  /\ recordCalls = <<>>
  /\ wordList = <<>>
  /\ gameBoard = [targetWords |-> <<>>]
  /\ pc = "app"
  /\ words = <<>>
  /\ gridSize = 1
  /\ lang = "en"
  /\ sorted = <<>>
  /\ idx = 1
  /\ grid = createEmptyGrid(1)
  /\ placements = <<>>
  /\ skipped = <<>>
  /\ tried = <<>>
  /\ selCells = <<>>
  /\ selTargets = <<>>
  /\ result = None
  /\ gridReads = {}
  /\ raised = FALSE
  /\ argsAfter = None
  /\ wonFound = <<>>
  /\ wonTargets = <<>>
  /\ won = None
  /\ firstCall = None
  /\ TryIdle
  /\ StoreIdle
  /\ CompIdle

AppFrame == UNCHANGED <<selVars, wonVars, firstCall, tryVars, storeVars, compVars>>

\* startGame up to its first await, lines 55-85; with two or more custom words
\* there is no await and the call goes straight into generateGrid. modal is
\* what <win-modal> shows when the call begins. generateGrid is synchronous:
\* from here to GameStarted no handler runs (pc is not "app").
startGame(c, modal) ==
  /\ pc = "app"
  /\ startCalls[c].pc = "idle"
  /\ \A d \in 1..(c - 1) : startCalls[d].pc # "idle"
  /\ \E raw \in CustomInputs :
       LET l == state.lang
           level == state.level
           levelCfg == getLevel(level)
           customWords == parseCustomWords(raw)
           frame == [lang |-> l, level |-> level,
                     wordCount |-> levelCfg.wordCount, gridSize |-> levelCfg.gridSize,
                     langAtCall |-> state.lang, levelAtCall |-> state.level]
       IN  /\ state' = IF state.gameActive THEN endGame(state) ELSE state
           /\ IF Len(customWords) > 0
              THEN IF Len(customWords) < 2
                   THEN /\ startCalls' = [startCalls EXCEPT ![c] = [pc |-> "returned"]]
                        /\ ui' = [loading |-> FALSE, winModal |-> "error"]
                        /\ UNCHANGED <<pc, genVars>>
                   ELSE /\ startCalls' = [startCalls EXCEPT ![c] =
                             frame @@ [pc |-> "generate", words |-> customWords,
                                       made |-> <<CallGenerateGrid(frame, customWords)>>]]
                        /\ ui' = [loading |-> TRUE, winModal |-> modal]
                        /\ EnterGenerateGrid(customWords, levelCfg.gridSize, l)
              ELSE /\ startCalls' = [startCalls EXCEPT ![c] =
                        frame @@ [pc |-> "fetching", words |-> <<>>,
                                  made |-> <<ServiceCall("fetchWords", l, level,
                                                         levelCfg.wordCount * 2)>>]]
                   /\ ui' = [loading |-> TRUE, winModal |-> modal]
                   /\ UNCHANGED <<pc, genVars>>
  /\ UNCHANGED <<recordCalls, wordList, gameBoard>>
  /\ AppFrame

\* Line 140: a click on the start button, which setLoading disables while a
\* call is loading.
ClickStart(c) ==
  /\ ~ui.loading
  /\ startGame(c, ui.winModal)

\* Line 179: play-again, which <win-modal> dispatches from its win view after
\* hiding itself.
PlayAgain(c) ==
  /\ ui.winModal = "win"
  /\ startGame(c, "closed")

\* Lines 85-93: fetchWords settles. Resolved, addWords is called; rejected, the
\* catch block runs and getWords is called.
FetchReturns(c) ==
  /\ pc = "app"
  /\ startCalls[c].pc = "fetching"
  /\ \E threw \in BOOLEAN :
       LET f == startCalls[c]
       IN  startCalls' = [startCalls EXCEPT
             ![c].pc = IF threw THEN "getting" ELSE "adding",
             ![c].made = Append(@, IF threw THEN CallGetWords(f)
                                   ELSE ServiceCall("addWords", f.lang, f.level, "fetched"))]
  /\ UNCHANGED <<pc, genVars, state, ui, recordCalls, wordList, gameBoard>>
  /\ AppFrame

\* Lines 87-93: addWords settles, resolved or rejected alike; getWords is called.
AddReturns(c) ==
  /\ pc = "app"
  /\ startCalls[c].pc = "adding"
  /\ startCalls' = [startCalls EXCEPT
       ![c].pc = "getting",
       ![c].made = Append(@, CallGetWords(startCalls[c]))]
  /\ UNCHANGED <<pc, genVars, state, ui, recordCalls, wordList, gameBoard>>
  /\ AppFrame

\* Lines 93-103: getWords resolves. Under three words the call reports the error
\* and returns; otherwise it goes into generateGrid.
GetReturns(c) ==
  /\ pc = "app"
  /\ startCalls[c].pc = "getting"
  /\ \E ws \in GetWordsResults :
       LET f == startCalls[c]
       IN  IF Len(ws) < 3
           THEN /\ startCalls' = [startCalls EXCEPT ![c] = [pc |-> "returned"]]
                /\ ui' = [loading |-> FALSE, winModal |-> "error"]
                /\ UNCHANGED <<pc, genVars>>
           ELSE /\ startCalls' = [startCalls EXCEPT
                     ![c].pc = "generate", ![c].words = ws,
                     ![c].made = Append(@, CallGenerateGrid(f, ws))]
                /\ EnterGenerateGrid(ws, f.gridSize, f.lang)
                /\ UNCHANGED ui
  /\ UNCHANGED <<state, recordCalls, wordList, gameBoard>>
  /\ AppFrame

\* Line 93: getWords rejects, and so does the startGame call; the start button
\* stays disabled.
GetRejects(c) ==
  /\ pc = "app"
  /\ startCalls[c].pc = "getting"
  /\ startCalls' = [startCalls EXCEPT ![c] = [pc |-> "failed", made |-> startCalls[c].made]]
  /\ UNCHANGED <<pc, genVars, state, ui, recordCalls, wordList, gameBoard>>
  /\ AppFrame

\* Mutant: the round's targets are the words handed to generateGrid.
GameStarted_InputWords(c) ==
  /\ pc = "done"
  /\ startCalls[c].pc = "generate"
  /\ LET f == startCalls[c]
         placedWords == f.words
     IN  /\ state' = [state EXCEPT !.gameLang = f.lang, !.gameLevel = f.level,
                                   !.words = placedWords, !.foundWords = <<>>,
                                   !.gameActive = TRUE]
         /\ wordList' = [i \in 1..Len(placedWords) |-> toLowerCase(placedWords[i])]
         /\ gameBoard' = [targetWords |-> placedWords]
  /\ ui' = [ui EXCEPT !.loading = FALSE]
  /\ startCalls' = [startCalls EXCEPT ![c] = [pc |-> "started", words |-> startCalls[c].words]]
  /\ LeaveGenerateGrid
  /\ UNCHANGED recordCalls
  /\ AppFrame

\* Lines 103-125: generateGrid has returned; state and both components are
\* updated from its placements.
GameStarted(c) ==
  /\ pc = "done"
  /\ startCalls[c].pc = "generate"
  /\ LET f == startCalls[c]
         placedWords == [i \in 1..Len(placements) |-> placements[i].word]
     IN  /\ state' = [state EXCEPT !.gameLang = f.lang, !.gameLevel = f.level,
                                   !.words = placedWords, !.foundWords = <<>>,
                                   !.gameActive = TRUE]
         /\ wordList' = [i \in 1..Len(placedWords) |-> toLowerCase(placedWords[i])]
         /\ gameBoard' = [targetWords |-> placedWords]
  /\ ui' = [ui EXCEPT !.loading = FALSE]
  /\ startCalls' = [startCalls EXCEPT ![c] = [pc |-> "started", words |-> startCalls[c].words]]
  /\ LeaveGenerateGrid
  /\ UNCHANGED recordCalls
  /\ AppFrame

\* Lines 147-150: lang-changed.
LangChanged ==
  /\ pc = "app"
  /\ \E l \in AppLangs \ {state.lang} : state' = [state EXCEPT !.lang = l]
  /\ UNCHANGED <<pc, genVars, ui, startCalls, recordCalls, wordList, gameBoard>>
  /\ AppFrame

\* Lines 152-155: level-changed.
LevelChanged ==
  /\ pc = "app"
  /\ \E level \in AppLevels \ {state.level} : state' = [state EXCEPT !.level = level]
  /\ UNCHANGED <<pc, genVars, ui, startCalls, recordCalls, wordList, gameBoard>>
  /\ AppFrame

\* Mutant: a word that is already in foundWords is pushed again.
wordFound_PushAgain(st, word) ==
  IF ~st.gameActive THEN [state |-> st, won |-> FALSE]
  ELSE LET pushed == [st EXCEPT !.foundWords = Append(@, word)]
       IN  IF isGameWon(pushed.foundWords, pushed.words)
           THEN [state |-> endGame(pushed), won |-> TRUE]
           ELSE [state |-> pushed, won |-> FALSE]

\* Lines 164-177, the word-found handler on state st for the event's word: the
\* state it leaves, and whether it called endGame(true).
wordFound(st, word) ==
  IF ~st.gameActive THEN [state |-> st, won |-> FALSE]
  ELSE IF word \in { st.foundWords[k] : k \in 1..Len(st.foundWords) }
  THEN [state |-> st, won |-> FALSE]
  ELSE LET pushed == [st EXCEPT !.foundWords = Append(@, word)]
       IN  IF isGameWon(pushed.foundWords, pushed.words)
           THEN [state |-> endGame(pushed), won |-> TRUE]
           ELSE [state |-> pushed, won |-> FALSE]

\* Lines 164-177 and endGame, lines 128-136: the board reports one of its
\* target words found (game-board.js line 518 dispatches result.word, a word
\* of its target list); when the handler ends the game as won, endGame
\* records the iteration and opens the win view.
WordFound ==
  /\ pc = "app"
  /\ \E i \in 1..Len(gameBoard.targetWords) :
       LET out == wordFound(state, gameBoard.targetWords[i])
       IN  /\ state' = out.state
           /\ IF out.won
              THEN /\ recordCalls' = Append(recordCalls,
                        [lang |-> state.gameLang, level |-> state.gameLevel,
                         words |-> state.words,
                         selLang |-> state.lang, selLevel |-> state.level])
                   /\ ui' = [ui EXCEPT !.winModal = "win"]
              ELSE UNCHANGED <<recordCalls, ui>>
  /\ UNCHANGED <<pc, genVars, startCalls, wordList, gameBoard>>
  /\ AppFrame

NextApp ==
  \/ \E c \in 1..MaxStartCalls : ClickStart(c)
  \/ \E c \in 1..MaxStartCalls : PlayAgain(c)
  \/ \E c \in 1..MaxStartCalls : FetchReturns(c)
  \/ \E c \in 1..MaxStartCalls : AddReturns(c)
  \/ \E c \in 1..MaxStartCalls : GetReturns(c)
  \/ \E c \in 1..MaxStartCalls : GetRejects(c)
  \/ SkipTooLong
  \/ PlaceCommit
  \/ PlaceGiveUp
  \/ LoopDone
  \/ FillAndReturn
  \/ \E c \in 1..MaxStartCalls : GameStarted(c)
  \/ LangChanged
  \/ LevelChanged
  \/ WordFound

SpecApp == InitApp /\ [][NextApp]_vars

\* ------------------------------------------------------------------ word-api.js
\* withRetry, lines 62-76.  fn is any promise-returning function: an
\* invocation of it resolves with one of RetryValues or rejects with one of
\* RetryErrors.  The log keeps, in order, every invocation of fn, the outcome
\* of each and every wait that was started.

MAX_RETRIES == 3
RETRY_BASE_MS == 500

RetryValues == {"v1", "v2"}
RetryErrors == {"e1", "e2"}

\* The retries argument: None when the caller leaves it out.
RetriesArgs == {None} \cup { Some(n) : n \in 0..MaxRetriesArg }

LogEntry(kind, n, v) == [kind |-> kind, n |-> n, v |-> v]

\* Line 62: the call, with the default of the second parameter.
InitRetry ==
  /\ \E arg \in RetriesArgs :
       retryCall = [pc |-> "loop",
                    retries |-> IF arg = None THEN MAX_RETRIES ELSE The(arg),
                    attempt |-> 0, lastErr |-> None, log |-> <<>>, outcome |-> None]
  /\ board = [pc |-> "idle"]
  /\ boardOp = [op |-> "none"]
  /\ firstCall = None
  /\ TryIdle
  /\ StoreIdle
  /\ AppIdle
  /\ pc = "retry"
  /\ words = <<>>
  /\ gridSize = 1
  /\ lang = "en"
  /\ sorted = <<>>
  /\ idx = 1
  /\ grid = createEmptyGrid(1)
  /\ placements = <<>>
  /\ skipped = <<>>
  /\ tried = <<>>
  /\ selCells = <<>>
  /\ selTargets = <<>>
  /\ result = None
  /\ gridReads = {}
  /\ raised = FALSE
  /\ argsAfter = None
  /\ wonFound = <<>>
  /\ wonTargets = <<>>
  /\ won = None

RetryFrame ==
  UNCHANGED <<pc, genVars, selVars, wonVars, firstCall, tryVars, storeVars, appVars,
              board, boardOp>>

\* Lines 64-66: the loop condition holds and fn is invoked.
RetryInvoke ==
  /\ retryCall.pc = "loop"
  /\ retryCall.attempt < retryCall.retries
  /\ retryCall' = [retryCall EXCEPT
                     !.pc = "invoked",
                     !.log = Append(@, LogEntry("invoke", retryCall.attempt, "fn"))]
  /\ RetryFrame

\* Line 66: the promise of fn resolves and withRetry returns its value.
FnResolves ==
  /\ retryCall.pc = "invoked"
  /\ \E v \in RetryValues :
       retryCall' = [retryCall EXCEPT
                       !.pc = "returned",
                       !.outcome = Some(v),
                       !.log = Append(@, LogEntry("ok", retryCall.attempt, v))]
  /\ RetryFrame

\* Mutant: the wait is started after every failure.
FnRejects_AlwaysWaits ==
  /\ retryCall.pc = "invoked"
  /\ \E err \in RetryErrors :
       retryCall' = [retryCall EXCEPT
                       !.pc = "waiting",
                       !.lastErr = Some(err),
                       !.log = @ \o << LogEntry("err", retryCall.attempt, err),
                                       LogEntry("wait", RETRY_BASE_MS * (retryCall.attempt + 1),
                                                "timer") >>]
  /\ RetryFrame

\* Lines 67-72: the promise of fn rejects: the error is kept, and unless this
\* was the last attempt a timer of RETRY_BASE_MS * (attempt + 1) is started.
FnRejects ==
  /\ retryCall.pc = "invoked"
  /\ \E err \in RetryErrors :
       IF retryCall.attempt < retryCall.retries - 1
       THEN retryCall' = [retryCall EXCEPT
                            !.pc = "waiting",
                            !.lastErr = Some(err),
                            !.log = @ \o << LogEntry("err", retryCall.attempt, err),
                                            LogEntry("wait",
                                                     RETRY_BASE_MS * (retryCall.attempt + 1),
                                                     "timer") >>]
       ELSE retryCall' = [retryCall EXCEPT
                            !.pc = "loop",
                            !.attempt = @ + 1,
                            !.lastErr = Some(err),
                            !.log = Append(@, LogEntry("err", retryCall.attempt, err))]
  /\ RetryFrame

\* Lines 70 and 64: the timer fires and the loop goes on with attempt++.
WaitEnds ==
  /\ retryCall.pc = "waiting"
  /\ retryCall' = [retryCall EXCEPT !.pc = "loop", !.attempt = @ + 1]
  /\ RetryFrame

\* Lines 64 and 75: the loop condition fails and lastErr is thrown.
RetryThrows ==
  /\ retryCall.pc = "loop"
  /\ ~(retryCall.attempt < retryCall.retries)
  /\ retryCall' = [retryCall EXCEPT !.pc = "rejected", !.outcome = retryCall.lastErr]
  /\ RetryFrame

NextRetry ==
  \/ RetryInvoke
  \/ FnResolves
  \/ FnRejects
  \/ WaitEnds
  \/ RetryThrows

SpecRetry == InitRetry /\ [][NextRetry]_vars

\* ------------------------------------------------------------------ game-board.js
\* The selection state of <game-board> and the listeners that change it.  The
\* DOM classes and _foundCells only drive the highlighting and are left out.
\* A listener runs to its end before another starts; dispatchEvent runs the
\* listeners of main.js, which never call back into the component.

\* setGrid gets the square grid generateGrid returned, here a chequerboard of
\* "a" and "b", and the placed words.
BoardGrid ==
  [r \in 0..(BoardSize - 1) |-> [c \in 0..(BoardSize - 1) |->
     IF (r + c) % 2 = 0 THEN "a" ELSE "b"]]

BoardTargetLists == { << <<"a", "b">> >>, << <<"a", "b">>, <<"a", "b", "a">> >> }

BoardCells == { Cell(r, c) : r \in 0..(BoardSize - 1), c \in 0..(BoardSize - 1) }

\* The cells the pointer goes down on or moves over: the first two of the top
\* row spell "ab", the diagonal pair "aa", and the three make no line.
PointerCells == { Cell(0, 0), Cell(0, 1), Cell(1, 1) }

\* Lines 186-191.
ARROW_DIRS ==
  [ArrowUp |-> <<-1, 0>>, ArrowDown |-> <<1, 0>>, ArrowLeft |-> <<0, -1>>,
   ArrowRight |-> <<0, 1>>]

Sign(n) == IF n > 0 THEN 1 ELSE IF n < 0 THEN -1 ELSE 0
Abs(n) == IF n < 0 THEN -n ELSE n
Max(a, b) == IF a > b THEN a ELSE b
Min(a, b) == IF a < b THEN a ELSE b

\* Lines 228-238: the fields setGrid leaves behind.
setGrid(g, targetWords) ==
  [grid |-> g, targetWords |-> targetWords, selecting |-> FALSE, selCells |-> <<>>,
   kbdMode |-> FALSE, kbdAnchor |-> None, focusedCell |-> None]

\* The record of the listener that ran last: its name, the selection and the
\* two mode flags it found, and the events it dispatched.
Ran(op, events) ==
  [op |-> op,
   before |-> [selCells |-> board.selCells, selecting |-> board.selecting,
               kbdMode |-> board.kbdMode],
   events |-> events]

\* _extendKbdSelection, lines 394-421: the _selCells it leaves.
extendKbdSelection(b, target) ==
  IF b.kbdAnchor = None THEN b.selCells
  ELSE
    LET anchor == The(b.kbdAnchor)
    IN  IF target = anchor THEN b.selCells
        ELSE
          LET dr == Sign(target.row - anchor.row)
              dc == Sign(target.col - anchor.col)
              steps == Max(Abs(target.row - anchor.row), Abs(target.col - anchor.col))
          IN  [i \in 1..(steps + 1) |->
                 Cell(anchor.row + (i - 1) * dr, anchor.col + (i - 1) * dc)]

\* Mutant: a selection that matches nothing is dropped silently.
validateSelection_FoundOnly(b) ==
  LET r == checkSelection(b.grid, b.selCells, b.targetWords)
  IN  IF r.found
      THEN << [type |-> "word-found", word |-> r.word, cells |-> r.cells] >>
      ELSE <<>>

\* _validateSelection, lines 503-544: the events it dispatches.  checkSelection
\* does not throw on a square grid.
validateSelection(b) ==
  LET r == checkSelection(b.grid, b.selCells, b.targetWords)
  IN  IF r.found
      THEN << [type |-> "word-found", word |-> r.word, cells |-> r.cells] >>
      ELSE << [type |-> "word-invalid", word |-> None, cells |-> b.selCells] >>

\* setGrid was called and has rendered the cells.
InitBoard ==
  /\ \E targetWords \in BoardTargetLists : board = setGrid(BoardGrid, targetWords)
  /\ boardOp = [op |-> "setGrid",
                before |-> [selCells |-> <<>>, selecting |-> FALSE, kbdMode |-> FALSE],
                events |-> <<>>]
  /\ retryCall = [pc |-> "idle"]
  /\ firstCall = None
  /\ TryIdle
  /\ StoreIdle
  /\ AppIdle
  /\ pc = "board"
  /\ words = <<>>
  /\ gridSize = 1
  /\ lang = "en"
  /\ sorted = <<>>
  /\ idx = 1
  /\ grid = createEmptyGrid(1)
  /\ placements = <<>>
  /\ skipped = <<>>
  /\ tried = <<>>
  /\ selCells = <<>>
  /\ selTargets = <<>>
  /\ result = None
  /\ gridReads = {}
  /\ raised = FALSE
  /\ argsAfter = None
  /\ wonFound = <<>>
  /\ wonTargets = <<>>
  /\ won = None

BoardFrame ==
  UNCHANGED <<pc, genVars, selVars, wonVars, firstCall, tryVars, storeVars, appVars,
              retryCall>>

\* Lines 300-302: a cell gets the focus, by Tab or by a click.
CellFocus ==
  /\ \E cell \in BoardCells :
       board' = [board EXCEPT !.focusedCell = Some(cell)]
  /\ boardOp' = Ran("focus", <<>>)
  /\ BoardFrame

\* Lines 338-358: an arrow key on the focused cell; _focusCell focuses the
\* clamped neighbour, whose focus listener sets _focusedCell.
KeyArrow ==
  /\ board.focusedCell # None
  /\ \E key \in DOMAIN ARROW_DIRS :
       LET size == GridLength(board.grid)
           nr == Max(0, Min(size - 1, The(board.focusedCell).row + ARROW_DIRS[key][1]))
           nc == Max(0, Min(size - 1, The(board.focusedCell).col + ARROW_DIRS[key][2]))
       IN  board' = [board EXCEPT
                       !.selCells = IF board.kbdMode
                                    THEN extendKbdSelection(board, Cell(nr, nc)) ELSE @,
                       !.focusedCell = Some(Cell(nr, nc))]
  /\ boardOp' = Ran("arrow", <<>>)
  /\ BoardFrame

\* Lines 360-381: Space or Enter on the focused cell starts a keyboard
\* selection there, or commits the one that is active.
KeySpaceEnter ==
  /\ board.focusedCell # None
  /\ IF ~board.kbdMode
     THEN /\ board' = [board EXCEPT !.kbdMode = TRUE,
                                    !.kbdAnchor = board.focusedCell,
                                    !.selCells = << The(board.focusedCell) >>]
          /\ boardOp' = Ran("key-start", <<>>)
     ELSE /\ board' = [board EXCEPT !.kbdMode = FALSE, !.kbdAnchor = None,
                                    !.selCells = <<>>]
          /\ boardOp' = Ran("key-commit",
                            IF Len(board.selCells) >= 2 THEN validateSelection(board)
                            ELSE <<>>)
  /\ BoardFrame

\* Lines 383-391: Escape cancels an active keyboard selection.
KeyEscape ==
  /\ board.focusedCell # None
  /\ board' = IF board.kbdMode
              THEN [board EXCEPT !.kbdMode = FALSE, !.kbdAnchor = None, !.selCells = <<>>]
              ELSE board
  /\ boardOp' = Ran("escape", <<>>)
  /\ BoardFrame

\* Mutant: a pointer-down during a keyboard selection leaves it active.
PointerDown_KeepsKbdMode ==
  /\ \E cell \in PointerCells :
       board' = [board EXCEPT !.selecting = TRUE, !.selCells = <<cell>>]
  /\ boardOp' = Ran("pointerdown", <<>>)
  /\ BoardFrame

\* _onPointerDown, lines 439-458.  The listener is on the cells, so the target
\* is a cell.
PointerDown ==
  /\ \E cell \in PointerCells :
       board' = [board EXCEPT !.kbdMode = FALSE, !.kbdAnchor = None,
                              !.selecting = TRUE, !.selCells = <<cell>>]
  /\ boardOp' = Ran("pointerdown", <<>>)
  /\ BoardFrame

\* _onPointerMove, lines 460-486: the pointer is over a cell or over none.
PointerMove ==
  /\ \E hit \in {None} \cup { Some(cell) : cell \in PointerCells } :
       LET sel == board.selCells
           n == Len(sel)
       IN  IF ~board.selecting \/ hit = None THEN UNCHANGED board
           ELSE IF n >= 1 /\ sel[n] = The(hit) THEN UNCHANGED board
           ELSE IF n >= 2 /\ sel[n - 1] = The(hit)
                THEN board' = [board EXCEPT !.selCells = SubSeq(sel, 1, n - 1)]
           ELSE /\ n < MaxBoardSel
                /\ board' = [board EXCEPT !.selCells = Append(sel, The(hit))]
  /\ boardOp' = Ran("pointermove", <<>>)
  /\ BoardFrame

\* _onPointerUp, lines 488-499.
PointerUp ==
  /\ IF ~board.selecting
     THEN /\ UNCHANGED board
          /\ boardOp' = Ran("pointerup", <<>>)
     ELSE /\ board' = [board EXCEPT !.selecting = FALSE, !.selCells = <<>>]
          /\ boardOp' = Ran("pointerup",
                            IF Len(board.selCells) < 2 THEN <<>>
                            ELSE validateSelection(board))
  /\ BoardFrame

\* Lines 228-239: startGame hands the component the next grid.
SetGrid ==
  /\ \E targetWords \in BoardTargetLists : board' = setGrid(BoardGrid, targetWords)
  /\ boardOp' = Ran("setGrid", <<>>)
  /\ BoardFrame

NextBoard ==
  \/ CellFocus
  \/ KeyArrow
  \/ KeySpaceEnter
  \/ KeyEscape
  \/ PointerDown
  \/ PointerMove
  \/ PointerUp
  \/ SetGrid

SpecBoard == InitBoard /\ [][NextBoard]_vars

\* ------------------------------------------------------------------ claims
Returned == pc \in {"done", "checked"}

Placements == { placements[n] : n \in 1..Len(placements) }

\* The letters of g at cells, in order.
ReadCells(g, cells) == [i \in 1..Len(cells) |-> g[cells[i].row][cells[i].col]]

CellSet(p) == { p.cells[i] : i \in 1..Len(p.cells) }

AllCells == { Cell(r, c) : r \in 0..(gridSize - 1), c \in 0..(gridSize - 1) }

\* C1: once generateGrid has returned, reading the grid along any returned
\* placement's cells, in order, gives exactly that placement's word - also for
\* placements crossed by later words and after the filler step.
C1_PlacementReadsBack ==
  Returned => \A p \in Placements : ReadCells(grid, p.cells) = p.word

\* C1 witness: two returned placements of two letters each share a cell, and
\* at least one cell was left to the filler.
C1_Witness ==
  /\ Returned
  /\ Len(placements) = 2
  /\ Len(placements[1].word) = 2 /\ Len(placements[2].word) = 2
  /\ CellSet(placements[1]) \cap CellSet(placements[2]) # {}
  /\ CellSet(placements[1]) # CellSet(placements[2])
  /\ AllCells \ (CellSet(placements[1]) \cup CellSet(placements[2])) # {}

\* The letters of the alphabet of language l, English for an unknown code.
FillerAlphabet(l) ==
  LET a == IF l \in {"en", "ru", "be", "uk"} THEN ALPHABETS[l] ELSE ALPHABETS["en"]
  IN  { a[i] : i \in 1..Len(a) }

\* C2: once generateGrid has returned, the grid has gridSize rows of gridSize
\* cells, no cell is unset, and every cell holds either the letter a returned
\* placement wrote there or a character of the filler alphabet of lang.
C2_GridFullyPopulated ==
  Returned =>
    /\ DOMAIN grid = 0..(gridSize - 1)
    /\ \A r \in DOMAIN grid :
         /\ DOMAIN grid[r] = 0..(gridSize - 1)
         /\ \A c \in DOMAIN grid[r] :
              /\ grid[r][c] # Null
              /\ \/ \E p \in Placements : \E i \in 1..Len(p.cells) :
                      p.cells[i] = Cell(r, c) /\ p.word[i] = grid[r][c]
                 \/ grid[r][c] \in FillerAlphabet(lang)

\* C2 witness: a returned grid with a cell written by a placement and a cell
\* written by the filler.
C2_Witness ==
  /\ Returned
  /\ \E p \in Placements : CellSet(p) # {}
  /\ AllCells \ UNION { CellSet(p) : p \in Placements } # {}

\* The 8 unit directions and their canonical names.
CanonicalDirections ==
  { <<0, 1, "right">>, <<0, -1, "left">>, <<1, 0, "down">>, <<-1, 0, "up">>,
    <<1, 1, "down-right">>, <<1, -1, "down-left">>, <<-1, 1, "up-right">>,
    <<-1, -1, "up-left">> }

InBounds(cell) ==
  /\ 0 <= cell.row /\ cell.row < gridSize
  /\ 0 <= cell.col /\ cell.col < gridSize

\* C3: every recorded placement has exactly word.length cells, cell i is the
\* start cell moved i steps along (dr, dc), (dr, dc) is one of the 8 unit
\* directions and the direction name is its canonical name, and every cell is
\* inside the grid.
C3_PlacementIsStraightRun ==
  \A p \in Placements :
    /\ Len(p.cells) = Len(p.word)
    /\ <<p.dr, p.dc, p.direction>> \in CanonicalDirections
    /\ \A i \in 1..Len(p.cells) :
         /\ p.cells[i] = Cell(p.row + (i - 1) * p.dr, p.col + (i - 1) * p.dc)
         /\ InBounds(p.cells[i])

\* C3 witness: a returned two-letter placement running down-left.
C3_Witness ==
  /\ Returned
  /\ \E p \in Placements : Len(p.word) = 2 /\ p.direction = "down-left"

\* The last checkSelection call was made with the cells of placement p, in
\* placement order, and with p's word as the only target.
TracedForward(p) ==
  pc = "checked" /\ selCells = p.cells /\ selTargets = <<p.word>>

\* The same with the cells in reverse order.
TracedBackward(p) ==
  pc = "checked" /\ selCells = Reverse(p.cells) /\ selTargets = <<p.word>>

\* C4 as stated, for the placements of at least one letter: for every returned
\* placement with word W, cells C and direction D, checkSelection(grid, C, [W])
\* gives found = true, word = W, direction = D.
C4_Original ==
  \A p \in Placements :
    (TracedForward(p) /\ Len(p.word) >= 1) =>
      \E r \in result : r.found /\ r.word = Some(p.word) /\ r.direction = p.direction

\* C4 amended: the round trip holds for every returned placement whose word has
\* at least 2 letters.
C4_RoundTrip ==
  \A p \in Placements :
    (TracedForward(p) /\ Len(p.word) >= 2) =>
      \E r \in result : r.found /\ r.word = Some(p.word) /\ r.direction = p.direction

\* C4 witness: a placement of two letters running up was traced and found.
C4_Witness ==
  \E p \in Placements :
    /\ TracedForward(p) /\ Len(p.word) = 2 /\ p.direction = "up"
    /\ \E r \in result : r.found

\* C5: for every returned placement of a non-palindromic word W, tracing its
\* cells backwards gives found = true, word = W, the placement's own direction,
\* the placement's start cell and the cells in placement order.
C5_ReverseRoundTrip ==
  \A p \in Placements :
    (TracedBackward(p) /\ p.word # Reverse(p.word)) =>
      \E r \in result :
        /\ r.found
        /\ r.word = Some(p.word)
        /\ r.direction = p.direction
        /\ r.startCell = Some(Cell(p.row, p.col))
        /\ r.cells = p.cells

\* C5 witness: a non-palindromic placement running up-right was traced backwards
\* and found.
C5_Witness ==
  \E p \in Placements :
    /\ TracedBackward(p) /\ p.word # Reverse(p.word) /\ p.direction = "up-right"
    /\ \E r \in result : r.found

\* floor(sqrt(2) * n)
DiagonalBound(n) == CHOOSE k \in 0..(2 * n) : k * k <= 2 * n * n /\ 2 * n * n < (k + 1) * (k + 1)

OverLength(w) == Len(w) > DiagonalBound(gridSize)

Count(seq, x) == Cardinality({ i \in 1..Len(seq) : seq[i] = x })

\* C6: an input word longer than floor(sqrt(2) * gridSize) is never handed to
\* tryPlaceWord and never recorded as a placement, and once generateGrid has
\* returned it is in skipped as often as it was given; when every input word is
\* over-length, placements is empty and every cell holds a filler character.
C6_OverLengthSkipped ==
  /\ \A i \in 1..Len(words) :
       OverLength(words[i]) =>
         /\ Count(tried, toLowerCase(words[i])) = 0
         /\ \A p \in Placements : p.word # toLowerCase(words[i])
         /\ Returned => Count(skipped, words[i]) = Count(words, words[i])
  /\ (Returned /\ \A i \in 1..Len(words) : OverLength(words[i])) =>
       /\ placements = <<>>
       /\ \A r \in 0..(gridSize - 1), c \in 0..(gridSize - 1) :
            grid[r][c] \in FillerAlphabet(lang)

\* C6 witness: generateGrid has returned for two words, one over-length and
\* skipped, the other placed.
C6_Witness ==
  /\ Returned
  /\ Len(words) = 2
  /\ \E i \in 1..2 : OverLength(words[i]) /\ Count(skipped, words[i]) = 1
  /\ Len(placements) = 1

\* A selection with every run of identical adjacent cells collapsed to one cell.
RECURSIVE Collapse(_)
Collapse(cs) ==
  IF Len(cs) <= 1 THEN cs
  ELSE IF cs[1] = cs[2] THEN Collapse(Tail(cs))
  ELSE <<cs[1]>> \o Collapse(Tail(cs))

Delta(cs, i) == <<cs[i].row - cs[i - 1].row, cs[i].col - cs[i - 1].col>>

ConstantStep(cs) == Len(cs) >= 2 /\ \A i \in 2..Len(cs) : Delta(cs, i) = Delta(cs, 2)

UnitStep(d) == \E cd \in CanonicalDirections : cd[1] = d[1] /\ cd[2] = d[2]

NameOfStep(d) == (CHOOSE cd \in CanonicalDirections : cd[1] = d[1] /\ cd[2] = d[2])[3]

\* cs is an in-bounds straight line of at least 2 cells in one of the 8 directions.
StraightLine(cs) ==
  /\ ConstantStep(cs)
  /\ UnitStep(Delta(cs, 2))
  /\ \A i \in 1..Len(cs) : InBounds(cs[i])

IsTarget(w) == \E i \in 1..Len(selTargets) : toLowerCase(selTargets[i]) = toLowerCase(w)

Selected == pc = "selected"

INVALID ==
  [valid |-> FALSE, found |-> FALSE, word |-> None, direction |-> Null,
   startCell |-> None, cells |-> <<>>]

\* C7: for an in-bounds straight-line selection of at least 2 cells whose
\* letters, read in selection order, equal a target word ignoring case, the
\* result is valid and found, the word is that string in lowercase, the cells
\* are the deduplicated selection in the same order, startCell is the first
\* selected cell and direction names the selection's step - also when the
\* reversed string is a target too.
C7_ForwardMatch ==
  Selected =>
    LET cs == Collapse(selCells)
    IN  (StraightLine(cs) /\ IsTarget(ReadCells(grid, cs))) =>
          result = Some([valid |-> TRUE, found |-> TRUE,
                         word |-> Some(toLowerCase(ReadCells(grid, cs))),
                         direction |-> NameOfStep(Delta(cs, 2)),
                         startCell |-> Some(selCells[1]),
                         cells |-> cs])

\* C7 witness: a found forward match whose reversed string is a different
\* target word.
C7_Witness ==
  /\ Selected
  /\ LET cs == Collapse(selCells)
     IN  /\ StraightLine(cs)
         /\ IsTarget(ReadCells(grid, cs))
         /\ IsTarget(Reverse(ReadCells(grid, cs)))
         /\ toLowerCase(ReadCells(grid, cs)) # toLowerCase(Reverse(ReadCells(grid, cs)))
         /\ \E r \in result : r.found

\* C8: for an in-bounds straight-line selection whose forward string is not a
\* target but whose reversed string is, the result is found, the word is the
\* reversed string in lowercase, the cells are the deduplicated selection in
\* reverse order, startCell is the last selected cell and direction names the
\* negated step.
C8_ReversedMatch ==
  Selected =>
    LET cs == Collapse(selCells)
        d == Delta(cs, 2)
    IN  (/\ StraightLine(cs)
         /\ ~IsTarget(ReadCells(grid, cs))
         /\ IsTarget(Reverse(ReadCells(grid, cs)))) =>
          result = Some([valid |-> TRUE, found |-> TRUE,
                         word |-> Some(toLowerCase(Reverse(ReadCells(grid, cs)))),
                         direction |-> NameOfStep(<<0 - d[1], 0 - d[2]>>),
                         startCell |-> Some(selCells[Len(selCells)]),
                         cells |-> Reverse(cs)])

\* C8 witness: a three-cell selection dragged up-left was found through its
\* reversed string.
C8_Witness ==
  /\ Selected
  /\ LET cs == Collapse(selCells)
     IN  /\ StraightLine(cs) /\ Len(cs) = 3 /\ Delta(cs, 2) = <<-1, -1>>
         /\ ~IsTarget(ReadCells(grid, cs))
         /\ IsTarget(Reverse(ReadCells(grid, cs)))
         /\ \E r \in result : r.found /\ r.direction = "down-right"

\* C9: a selection that, after removing consecutive duplicates, has 2 or more
\* cells and a consecutive pair whose delta differs from the first pair's delta
\* gets the invalid result.
C9_BentSelectionInvalid ==
  Selected =>
    LET cs == Collapse(selCells)
    IN  (Len(cs) >= 2 /\ ~ConstantStep(cs)) => result = Some(INVALID)

\* C9 witness: an in-bounds L-shaped selection whose first two cells spell a
\* target word was rejected.
C9_Witness ==
  /\ Selected
  /\ LET cs == Collapse(selCells)
     IN  /\ Len(cs) = 3 /\ ~ConstantStep(cs)
         /\ \A i \in 1..3 : InBounds(cs[i])
         /\ StraightLine(SubSeq(cs, 1, 2))
         /\ IsTarget(ReadCells(grid, SubSeq(cs, 1, 2)))
         /\ result = Some(INVALID)

\* C10: a selection of 2 or more cells with a constant step that is not one of
\* the 8 unit directions is reported with valid = false and found = false.
C10_NonUnitStepInvalid ==
  Selected =>
    LET cs == Collapse(selCells)
    IN  (ConstantStep(cs) /\ ~UnitStep(Delta(cs, 2))) =>
          \E r \in result : ~r.valid /\ ~r.found

\* C10 witness: two in-bounds cells two columns apart whose letters spell a
\* target word were rejected.
C10_Witness ==
  /\ Selected
  /\ LET cs == Collapse(selCells)
     IN  /\ Len(cs) = 2 /\ Delta(cs, 2) = <<0, 2>>
         /\ \A i \in 1..2 : InBounds(cs[i])
         /\ IsTarget(ReadCells(grid, cs))
         /\ \E r \in result : ~r.valid

\* C11: when some cell of the deduplicated selection has its row or its column
\* outside [0, gridSize), the result is the invalid result and no grid cell was
\* read, however many of the other cells are in bounds.
C11_OutOfBoundsInvalid ==
  Selected =>
    LET cs == Collapse(selCells)
    IN  (\E i \in 1..Len(cs) : ~InBounds(cs[i])) =>
          /\ result = Some(INVALID)
          /\ gridReads = {}
          /\ ~raised

\* C11 witness: a straight run of three cells in a named direction of which only
\* the last one has left the grid, by its column.
C11_Witness ==
  /\ Selected
  /\ LET cs == Collapse(selCells)
     IN  /\ Len(cs) = 3
         /\ ConstantStep(cs)
         /\ UnitStep(Delta(cs, 2))
         /\ InBounds(cs[1]) /\ InBounds(cs[2])
         /\ cs[3].row \in 0..(gridSize - 1)
         /\ cs[3].col = gridSize
  /\ result = Some(INVALID)

\* C12: for an in-bounds straight-line selection whose letters are a target
\* word neither in selection order nor reversed, the result is valid and not
\* found, with word, direction and startCell null and with the deduplicated
\* selection, in input order, as its cells.
C12_NoMatchValid ==
  Selected =>
    LET cs == Collapse(selCells)
    IN  (/\ StraightLine(cs)
         /\ ~IsTarget(ReadCells(grid, cs))
         /\ ~IsTarget(Reverse(ReadCells(grid, cs)))) =>
          result = Some([valid |-> TRUE, found |-> FALSE, word |-> None,
                         direction |-> Null, startCell |-> None, cells |-> cs])

\* C12 witness: a straight line with a repeated sample whose letters miss every
\* word of a non-empty target list.
C12_Witness ==
  /\ Selected
  /\ selTargets # <<>>
  /\ selCells # Collapse(selCells)
  /\ StraightLine(Collapse(selCells))
  /\ \E r \in result : r.valid /\ ~r.found /\ r.cells = Collapse(selCells)

WellFormedResult(r) ==
  /\ DOMAIN r = {"valid", "found", "word", "direction", "startCell", "cells"}
  /\ r.valid \in BOOLEAN
  /\ r.found \in BOOLEAN
  /\ r.direction \in {Null} \cup { cd[3] : cd \in CanonicalDirections }
  /\ Cardinality(r.word) <= 1
  /\ Cardinality(r.startCell) <= 1
  /\ \A i \in 1..Len(r.cells) : r.cells[i] \in { selCells[j] : j \in 1..Len(selCells) }

\* C13: every call returns a SelectionResult and none throws - for the empty
\* list, for lists that are not a line and for lists with negative or too large
\* coordinates; the empty list gets the invalid result.
C13_Total ==
  Selected =>
    /\ ~raised
    /\ \E r \in result : WellFormedResult(r)
    /\ selCells = <<>> => result = Some(INVALID)

\* C13 witness: a bent selection that also has a negative row and a column past
\* the grid got the invalid result.
C13_Witness ==
  /\ Selected
  /\ Len(Collapse(selCells)) = 3
  /\ ~ConstantStep(Collapse(selCells))
  /\ \E i \in 1..Len(selCells) : selCells[i].row < 0
  /\ \E i \in 1..Len(selCells) : selCells[i].col >= gridSize
  /\ result = Some(INVALID)
  /\ ~raised

Respell(kind, ch) ==
  CASE kind = "upper" -> (IF ch = "a" THEN "A" ELSE IF ch = "b" THEN "B" ELSE ch)
    [] kind = "lower" -> (IF ch = "A" THEN "a" ELSE IF ch = "B" THEN "b" ELSE ch)
    [] kind = "swap"  -> (IF ch = "a" THEN "A" ELSE IF ch = "A" THEN "a"
                          ELSE IF ch = "b" THEN "B" ELSE IF ch = "B" THEN "b" ELSE ch)

RespellWord(kind, w) == [i \in 1..Len(w) |-> Respell(kind, w[i])]

RespellTargets(kind, ts) == [i \in 1..Len(ts) |-> RespellWord(kind, ts[i])]

RespellGrid(kind, g) == [r \in DOMAIN g |-> [c \in DOMAIN g[r] |-> Respell(kind, g[r][c])]]

Spellings == {"upper", "lower", "swap"}

SameVerdict(r1, r2) ==
  /\ r1.valid = r2.valid
  /\ r1.found = r2.found
  /\ r1.direction = r2.direction
  /\ r1.cells = r2.cells

\* C15: valid, found, direction and cells of the result do not change when every
\* target word, or every grid letter, is spelled in another case, and the
\* reported word is in lowercase.
C15_CaseInsensitive ==
  Selected =>
    \A r \in result :
      /\ \A kind \in Spellings :
           /\ SameVerdict(r, checkSelection(grid, selCells, RespellTargets(kind, selTargets)))
           /\ SameVerdict(r, checkSelection(RespellGrid(kind, grid), selCells, selTargets))
      /\ \A w \in r.word : w = RespellWord("lower", w)

\* C15 witness: a found selection over an uppercase grid letter whose matched
\* target is spelled in neither the grid's case nor lowercase.
C15_Witness ==
  /\ Selected
  /\ StraightLine(Collapse(selCells))
  /\ \E i \in 1..Len(selCells) : grid[selCells[i].row][selCells[i].col] = "B"
  /\ \E r \in result :
       /\ r.found
       /\ \A i \in 1..Len(selTargets) :
            /\ selTargets[i] # ReadCells(grid, r.cells)
            /\ selTargets[i] \notin r.word

\* C17: a selection and the same selection with every run of identical adjacent
\* cells collapsed to one cell get the same result; the normalized selection,
\* when there is one, is exactly the collapsed selection, so a cell that comes
\* back after another cell is kept.
C17_AdjacentRepeatsIgnored ==
  Selected =>
    LET cs == Collapse(selCells)
        normalized == normalizeSelection(selCells)
    IN  /\ result = Some(checkSelection(grid, cs, selTargets))
        /\ normalized = normalizeSelection(cs)
        /\ normalized \in {None, Some(cs)}
        /\ (\E i, j \in 1..Len(cs) : i # j /\ cs[i] = cs[j]) => result = Some(INVALID)

\* C17 witness: a selection with a doubled sample that is found.
C17_Witness ==
  /\ Selected
  /\ selCells # Collapse(selCells)
  /\ Len(Collapse(selCells)) >= 2
  /\ \E r \in result : r.found /\ Len(r.cells) = Len(Collapse(selCells))

\* C18: a selection that reduces to one in-bounds cell is valid with a null
\* direction; it is found exactly when a one-letter target equals, ignoring
\* case, the letter of that cell, and then the word has one letter.
C18_SingleCell ==
  Selected =>
    LET cs == Collapse(selCells)
    IN  (Len(cs) = 1 /\ InBounds(cs[1])) =>
          \E r \in result :
            /\ r.valid
            /\ r.direction = Null
            /\ r.cells = cs
            /\ r.found <=>
                 \E i \in 1..Len(selTargets) :
                   /\ Len(selTargets[i]) = 1
                   /\ toLowerCase(selTargets[i]) = toLowerCase(<<grid[cs[1].row][cs[1].col]>>)
            /\ r.found => \A w \in r.word : Len(w) = 1

\* C18 witness: one cell sampled more than once is found for a one-letter
\* target listed after a longer word.
C18_Witness ==
  /\ Selected
  /\ Len(selCells) >= 2
  /\ Len(Collapse(selCells)) = 1
  /\ Len(selTargets) = 2
  /\ Len(selTargets[1]) = 2
  /\ \E r \in result : r.found /\ r.direction = Null

Judged == pc = "judged"

SameIgnoringCase(v, w) == RespellWord("lower", v) = RespellWord("lower", w)

AllTargetsFound(found, targets) ==
  \A i \in 1..Len(targets) : \E j \in 1..Len(found) : SameIgnoringCase(targets[i], found[j])

\* C16: isGameWon returns true exactly when the target list is not empty and
\* every target equals, ignoring case, some found word - so false for an empty
\* target list; finding a word again, or a word that is no target, leaves the
\* answer as it is.
C16_WonIffAllTargetsFound ==
  Judged =>
    /\ won = Some(wonTargets # <<>> /\ AllTargetsFound(wonFound, wonTargets))
    /\ wonTargets = <<>> => won = Some(FALSE)
    /\ \A j \in 1..Len(wonFound) :
         Some(isGameWon(Append(wonFound, wonFound[j]), wonTargets)) = won
    /\ \A w \in WonVocabulary :
         (\A i \in 1..Len(wonTargets) : ~SameIgnoringCase(w, wonTargets[i]))
           => Some(isGameWon(<<w>> \o wonFound, wonTargets)) = won

\* C16 witness: a won round whose found list has a word twice and a word that
\* is no target, the target being spelled in another case than the found word.
C16_Witness ==
  /\ Judged
  /\ won = Some(TRUE)
  /\ \E i, j \in 1..Len(wonFound) : i # j /\ wonFound[i] = wonFound[j]
  /\ \E j \in 1..Len(wonFound) :
       \A i \in 1..Len(wonTargets) : ~SameIgnoringCase(wonFound[j], wonTargets[i])
  /\ \A i \in 1..Len(wonTargets) :
       \A j \in 1..Len(wonFound) : wonTargets[i] # wonFound[j]

\* The elements of seq at the positions in S, in order.
Restrict(seq, S) ==
  LET F[i \in 0..Len(seq)] ==
        IF i = 0 THEN <<>>
        ELSE IF i \in S THEN Append(F[i - 1], seq[i]) ELSE F[i - 1]
  IN  F[Len(seq)]

\* s is ws sorted by non-increasing length, words of one length keeping the
\* order they have in ws.
IsStableSortOf(s, ws) ==
  /\ Len(s) = Len(ws)
  /\ \E pi \in [1..Len(ws) -> 1..Len(ws)] :
       /\ \A i, j \in 1..Len(ws) : i # j => pi[i] # pi[j]
       /\ \A i \in 1..Len(ws) : s[i] = ws[pi[i]]
       /\ \A i, j \in 1..Len(ws) :
            i < j => \/ Len(s[i]) > Len(s[j])
                     \/ Len(s[i]) = Len(s[j]) /\ pi[i] < pi[j]

\* The words handled so far are the first idx - 1 words of the attempt order,
\* the placed ones in placements and the others in skipped, each in that order.
HandledInOrder ==
  \E S \in SUBSET (1..(idx - 1)) :
    /\ [n \in 1..Len(placements) |-> placements[n].word]
         = Restrict([i \in 1..(idx - 1) |-> toLowerCase(sorted[i])], S)
    /\ skipped = Restrict(SubSeq(sorted, 1, idx - 1), (1..(idx - 1)) \ S)

\* One step of the loop settles exactly the word at idx: it is committed to
\* placements or pushed on skipped, and nothing else joins either list.
OneWordPerStep ==
  idx' # idx =>
    /\ idx' = idx + 1
    /\ idx <= Len(sorted)
    /\ \/ /\ skipped' = skipped
          /\ Len(placements') = Len(placements) + 1
          /\ SubSeq(placements', 1, Len(placements)) = placements
          /\ placements'[Len(placements')].word = toLowerCase(sorted[idx])
       \/ /\ placements' = placements
          /\ skipped' = Append(skipped, sorted[idx])

\* C19: the words are attempted in non-increasing order of length, equal
\* lengths in input order, one word per loop step, each settled (committed or
\* skipped) before the next begins; placements and skipped list them in that
\* order.
C19_AttemptOrder ==
  /\ [](IsStableSortOf(sorted, words) /\ HandledInOrder)
  /\ [][OneWordPerStep /\ sorted' = sorted /\ words' = words]_vars

\* C19 witness: the call returned after the sort moved the longer second word
\* in front and both words were placed.
C19_Witness ==
  /\ Returned
  /\ Len(words) = 2
  /\ Len(words[1]) < Len(words[2])
  /\ Len(placements) = 2
  /\ placements[1].word = toLowerCase(words[2])
  /\ placements[2].word = toLowerCase(words[1])

\* C20: every call returns: the loop reaches its end and the grid is filled,
\* whatever is drawn; no step throws, and every word of the list has been
\* attempted - placed or skipped - by the time of the return, also the words
\* after one that found no place.
C20_Terminates ==
  /\ <>(pc = "done")
  /\ [](pc \in {"place", "fill", "done"})
  /\ [](pc = "done" =>
          /\ idx = Len(words) + 1
          /\ Len(placements) + Len(skipped) = Len(words)
          /\ C2_GridFullyPopulated)

\* C20 witness: the call returned after tryPlaceWord gave up on the first word
\* and the word after it was placed.
C20_Witness ==
  /\ pc = "done"
  /\ Len(tried) = 2
  /\ Len(skipped) = 1
  /\ tried[1] = toLowerCase(skipped[1])
  /\ Len(placements) = 1
  /\ placements[1].word = tried[2]

SkippedIsPlaced ==
  \E i \in 1..Len(skipped), n \in 1..Len(placements) :
    toLowerCase(skipped[i]) = toLowerCase(placements[n].word)

DistinctIgnoringCase(ws) ==
  \A i, j \in 1..Len(ws) : i # j => toLowerCase(ws[i]) # toLowerCase(ws[j])

\* C21 as stated: in every result, no placement's word equals, ignoring case,
\* a word of skipped.  Fails when the list holds a word twice: one copy is
\* committed and tryPlaceWord gives up on the other.
C21_Original == Returned => ~SkippedIsPlaced

\* C21: when the words of the list differ pairwise ignoring case, no
\* placement's word equals, ignoring case, a word of skipped.
C21_SkippedNotPlaced ==
  (Returned /\ DistinctIgnoringCase(words)) => ~SkippedIsPlaced

\* C21 witness: a call on two different words returned with one of them placed
\* and the other skipped after tryPlaceWord gave up on it.
C21_Witness ==
  /\ Returned
  /\ DistinctIgnoringCase(words)
  /\ Len(placements) = 1
  /\ Len(skipped) = 1
  /\ Len(tried) = 2

\* C22: for each of the 8 unit vectors, the name grid.js records for a
\* placement in that direction is the name validator.js gives a selection with
\* that step, and it is the name the vector has in the list right, left, down,
\* up, down-right, down-left, up-right, up-left; so every placement's recorded
\* direction is the validator's name of the step between its cells.
C22_SameDirectionNames ==
  /\ \A k \in 1..Len(DIRECTIONS) :
       /\ ValidatorDirectionName(DIRECTIONS[k][1], DIRECTIONS[k][2]) = DIRECTION_NAMES[k]
       /\ <<DIRECTIONS[k][1], DIRECTIONS[k][2], DIRECTION_NAMES[k]>> \in CanonicalDirections
  /\ Len(DIRECTIONS) = 8 /\ Len(DIRECTION_NAMES) = 8
  /\ \A n \in 1..Len(placements) :
       Len(placements[n].cells) >= 2 =>
         placements[n].direction =
           ValidatorDirectionName(placements[n].cells[2].row - placements[n].cells[1].row,
                                  placements[n].cells[2].col - placements[n].cells[1].col)

\* C22 witness: a word placed up-left was selected from its first letter and
\* the validator reported up-left.
C22_Witness ==
  /\ pc = "checked"
  /\ \E n \in 1..Len(placements) :
       /\ placements[n].direction = "up-left"
       /\ selCells = placements[n].cells
       /\ \E r \in result : r.found /\ r.direction = "up-left" /\ r.cells = selCells

GridBounds == (0..(gridSize - 1)) \X (0..(gridSize - 1))

\* The step commits a word: placements grows by one entry.
Commits == Len(placements') = Len(placements) + 1

\* The cells of the committed span are in bounds and each was unset or held
\* the letter the word has at that offset.
CommitFits ==
  LET p == placements'[Len(placements')]
  IN  \A i \in 1..Len(p.word) :
        /\ InBounds(p.cells[i])
        /\ grid[p.cells[i].row][p.cells[i].col] \in {Null, p.word[i]}
        /\ grid'[p.cells[i].row][p.cells[i].col] = p.word[i]

\* A cell that holds a letter keeps it.
SetCellsKept ==
  \A rc \in GridBounds :
    grid[rc[1]][rc[2]] # Null => grid'[rc[1]][rc[2]] = grid[rc[1]][rc[2]]

\* C28: a word is committed only where every cell of its span is in bounds and
\* unset or already holding the letter the word needs there; so no step of a
\* generateGrid call - commit or filler - changes a cell that holds a letter.
C28_SetCellsNeverChange ==
  [][/\ Commits => CommitFits
     /\ pc \in {"place", "fill"} => SetCellsKept]_vars

\* C28 witness: two committed words cross in a cell, and the call returned.
C28_Witness ==
  /\ Returned
  /\ Len(placements) = 2
  /\ Len(placements[1].word) = 2
  /\ Len(placements[2].word) = 2
  /\ placements[1].word # placements[2].word
  /\ CellSet(placements[1]) \cap CellSet(placements[2]) # {}
  /\ CellSet(placements[1]) # CellSet(placements[2])

\* The step is the filler step.
Fills == pc = "fill" /\ pc' = "done"

\* C29: the grid gets filler only in the step taken after the loop over the
\* words has ended, when every word is in placements or in skipped; that step
\* writes only cells that were unset, each with a character of the alphabet of
\* lang, or of the English alphabet when lang is no known code.
C29_FillerOnlyUnsetCells ==
  [][Fills =>
       /\ idx = Len(words) + 1
       /\ Len(placements) + Len(skipped) = Len(words)
       /\ placements' = placements /\ skipped' = skipped
       /\ \A rc \in GridBounds :
            IF grid[rc[1]][rc[2]] = Null
            THEN grid'[rc[1]][rc[2]] \in FillerAlphabet(lang)
            ELSE grid'[rc[1]][rc[2]] = grid[rc[1]][rc[2]]]_vars

\* C29 witness: a call with an unknown language code returned a grid that
\* holds a placed two-letter word and, in its other cells, English filler.
C29_Witness ==
  /\ pc = "done"
  /\ lang = "xx"
  /\ gridSize = 2
  /\ Len(placements) = 1
  /\ Len(placements[1].word) = 2
  /\ Len(skipped) = 1
  /\ \A rc \in GridBounds : grid[rc[1]][rc[2]] \in FillerAlphabet("en") \cup {"a", "b"}

Trying == pc = "trying"

\* The step hands one candidate to canPlace.
Tests == tested' = tested + 1

IsPermutationOfDirections(ds) ==
  /\ Len(ds) = 8
  /\ { ds[i] : i \in 1..Len(ds) } = 1..8

\* C27: a tryPlaceWord call tests at most 200 candidates; the candidate of
\* attempt index k has the direction at position k mod 8 of one permutation
\* of the 8 directions that stays the same for the whole call; a feasible
\* candidate is committed at once and ends the call, so every candidate tested
\* before it was infeasible and left the grid alone; after 200 infeasible
\* candidates the grid is as it was at the call and the word goes to skipped.
C27_AttemptBudget ==
  /\ [](Trying =>
          /\ tested <= 200
          /\ tested = attempt
          /\ IsPermutationOfDirections(dirs)
          /\ Some(grid) = gridAtCall)
  /\ [][Tests =>
          /\ attempt < 200
          /\ dirs' = dirs
          /\ \E t \in lastTest' :
               /\ t.attempt = attempt
               /\ t.dir = dirs[(attempt % 8) + 1]
               /\ IF \E row \in 0..(gridSize - 1), col \in 0..(gridSize - 1) :
                       /\ canPlace(grid, toLowerCase(sorted[idx]), row, col,
                                   DIRECTIONS[t.dir][1], DIRECTIONS[t.dir][2])
                       /\ placements' = Append(placements,
                                               PlacementOf(toLowerCase(sorted[idx]), row, col, t.dir))
                  THEN pc' = "place" /\ idx' = idx + 1 /\ skipped' = skipped
                  ELSE /\ grid' = grid /\ placements' = placements /\ skipped' = skipped
                       /\ pc' = "trying" /\ attempt' = attempt + 1]_vars
  /\ [][(Trying /\ skipped' # skipped) =>
          /\ tested = 200
          /\ grid' = grid /\ Some(grid) = gridAtCall
          /\ placements' = placements
          /\ skipped' = Append(skipped, sorted[idx])]_vars

\* C27 witness: the call returned after the first word was skipped when all
\* 200 candidates had failed and the second word was committed at attempt
\* index 9, its tenth candidate.
C27_Witness ==
  /\ pc = "done"
  /\ Len(tried) = 2
  /\ Len(skipped) = 1
  /\ Len(placements) = 1
  /\ skipped[1] = sorted[1]
  /\ tested = 10
  /\ \E t \in lastTest :
       /\ t.attempt = 9
       /\ DIRECTION_NAMES[t.dir] = placements[1].direction

EntriesOf(store, l, level) == { e \in store : e.lang = l /\ e.level = level }

\* The n entries of lang+level with the largest timestamps.
MostRecent(store, l, level, n) ==
  { e \in EntriesOf(store, l, level) :
      Cardinality({ f \in EntriesOf(store, l, level) : f.timestamp > e.timestamp }) < n }

UsedBy(entries) ==
  UNION { { RespellWord("lower", e.words[j]) : j \in 1..Len(e.words) } : e \in entries }

\* C25: the list getWords returned has at most count words, each one the word
\* of an entry cached for the lang+level of the call, and none that appears,
\* ignoring case, in one of the 20 most recent history entries the store held
\* for that lang+level when the call read the history.
C25_GetWordsExcludesRecent ==
  getCall.pc = "done" =>
    /\ Len(getCall.returned) <= getCall.count
    /\ \A i \in 1..Len(getCall.returned) :
         /\ \E e \in wordsStore :
              e.lang = getCall.lang /\ e.level = getCall.level /\ e.word = getCall.returned[i]
         /\ RespellWord("lower", getCall.returned[i])
              \notin UsedBy(MostRecent(getCall.historyAtRead, getCall.lang, getCall.level, 20))

\* C25 witness: the call read a history of 21 entries of its lang+level, whose
\* oldest entry used the word a and whose newest used ab, and returned a and
\* not the cached word ab.
C25_Witness ==
  /\ getCall.pc = "done"
  /\ getCall.count = 2
  /\ Cardinality(EntriesOf(getCall.historyAtRead, getCall.lang, getCall.level)) = 21
  /\ \E i \in 1..Len(getCall.returned) : getCall.returned[i] = <<"a">>
  /\ \E e \in wordsStore : e.lang = getCall.lang /\ e.level = getCall.level /\ e.word = <<"a", "b">>
  /\ <<"a", "b">> \in getCall.used

AllRecorded == \A c \in 1..MaxRecordCalls : recCalls[c].pc \in {"idle", "done"}

\* The step is a pruning of recordIteration call c.
Prunes(c) == recCalls[c].pc = "prune" /\ recCalls'[c].pc = "done"

\* C26: whenever no recordIteration call is under way, the history holds for
\* each lang+level at most 20 entries, namely those with the largest
\* timestamps of all entries ever recorded for it - also after calls for one
\* lang+level that overlapped; and a pruning step deletes no entry of another
\* lang+level than its own.
C26_HistoryPruned ==
  /\ [](AllRecorded =>
          \A pair \in Pairs :
            /\ Cardinality(EntriesOf(historyStore, pair[1], pair[2])) <= 20
            /\ EntriesOf(historyStore, pair[1], pair[2])
                 = MostRecent(recorded, pair[1], pair[2], 20))
  /\ [][\A c \in 1..MaxRecordCalls :
          Prunes(c) =>
            \A e \in historyStore :
              (e.lang # recCalls[c].lang \/ e.level # recCalls[c].level) => e \in historyStore']_vars

\* C26 witness: three calls for one lang+level have completed, two of which
\* read the history before either pruned, and 20 of the 22 entries recorded
\* for it are left, beside the entry of the other lang+level.
C26_Witness ==
  /\ \A c \in 1..MaxRecordCalls : recCalls[c].pc = "done" /\ recCalls[c].lang = "en"
  /\ \E b, c \in 1..MaxRecordCalls :
       /\ b # c
       /\ "toDelete" \in DOMAIN recCalls[b] /\ "toDelete" \in DOMAIN recCalls[c]
       /\ recCalls[b].toDelete = recCalls[c].toDelete
       /\ Len(recCalls[b].toDelete) = 2
  /\ Cardinality(EntriesOf(recorded, "en", "easy")) = 22
  /\ Cardinality(EntriesOf(historyStore, "en", "easy")) = 20
  /\ Cardinality(EntriesOf(historyStore, "ru", "easy")) = 1
\* The words of the placements generateGrid returned, in placement order.
PlacedWords == [i \in 1..Len(placements) |-> placements[i].word]

\* This step is the end of a startGame call that went through generateGrid.
Starts(c) == startCalls[c].pc = "generate" /\ startCalls'[c].pc = "started"

\* C23: a startGame call that went through generateGrid leaves state.words, the
\* words <word-list> shows and the target words of <game-board> equal to the
\* words of the returned placements, in placement order, and the targets are
\* set by no other step.
C23_TargetsArePlacedWords ==
  [][ /\ \A c \in 1..MaxStartCalls :
           Starts(c) => /\ state'.words = PlacedWords
                        /\ wordList' = PlacedWords
                        /\ gameBoard'.targetWords = PlacedWords
      /\ (state'.words # state.words \/ wordList' # wordList \/ gameBoard' # gameBoard)
           => \E c \in 1..MaxStartCalls : Starts(c) ]_vars

\* The first call was handed two words, one of them was skipped, and the round
\* it started has the placed word alone as target in all three places.
C23_Witness ==
  /\ startCalls[1].pc = "started"
  /\ startCalls[2].pc = "idle"
  /\ Len(startCalls[1].words) = 2
  /\ state.gameActive
  /\ Len(state.words) = 1
  /\ state.words # <<startCalls[1].words[1]>>
  /\ wordList = state.words
  /\ gameBoard.targetWords = state.words

Running(f) == f.pc \in {"fetching", "adding", "getting", "generate"}

\* Every call f made so far passed the language and level of the moment the
\* startGame call began (for generateGrid and the counts: that level's
\* configuration).
UsesSnapshot(f) ==
  \A i \in 1..Len(f.made) :
    LET e == f.made[i]
        cfg == getLevel(f.levelAtCall)
    IN  /\ e.lang = f.langAtCall
        /\ CASE e.service = "fetchWords" -> e.level = f.levelAtCall /\ e.arg = cfg.wordCount * 2
             [] e.service = "addWords" -> e.level = f.levelAtCall
             [] e.service = "getWords" -> e.level = f.levelAtCall /\ e.arg = cfg.wordCount
             [] e.service = "generateGrid" -> e.arg.gridSize = cfg.gridSize

\* C30: a startGame call passes to fetchWords, addWords, getWords and
\* generateGrid, and stores as gameLang and gameLevel, the language and level
\* selected when it began, whatever lang-changed and level-changed events run
\* during its awaits; a win records the iteration under gameLang and
\* gameLevel with the round's words.
C30_SnapshotUsedThroughout ==
  [][ /\ \A c \in 1..MaxStartCalls :
           /\ (startCalls[c].pc = "idle" /\ Running(startCalls'[c]))
                => /\ startCalls'[c].langAtCall = state.lang
                   /\ startCalls'[c].levelAtCall = state.level
           /\ (Running(startCalls[c]) /\ Running(startCalls'[c]))
                => /\ startCalls'[c].langAtCall = startCalls[c].langAtCall
                   /\ startCalls'[c].levelAtCall = startCalls[c].levelAtCall
           /\ Running(startCalls'[c]) => UsesSnapshot(startCalls'[c])
           /\ Starts(c) => /\ state'.gameLang = startCalls[c].langAtCall
                           /\ state'.gameLevel = startCalls[c].levelAtCall
      /\ (state'.gameLang # state.gameLang \/ state'.gameLevel # state.gameLevel)
           => \E c \in 1..MaxStartCalls : Starts(c)
      /\ recordCalls' # recordCalls
           => recordCalls' = Append(recordCalls,
                [lang |-> state.gameLang, level |-> state.gameLevel, words |-> state.words,
                 selLang |-> state.lang, selLevel |-> state.level]) ]_vars

\* A win was recorded under a language and a level that were not the selected
\* ones, and the second call waits for getWords, which it called after
\* fetchWords and addWords, while both selections differ from the ones it
\* began with.
C30_Witness ==
  /\ \E i \in 1..Len(recordCalls) :
       /\ recordCalls[i].lang # recordCalls[i].selLang
       /\ recordCalls[i].level # recordCalls[i].selLevel
  /\ startCalls[2].pc = "getting"
  /\ Len(startCalls[2].made) = 3
  /\ startCalls[2].langAtCall # state.lang
  /\ startCalls[2].levelAtCall # state.level

Lowered(ws) == [i \in 1..Len(ws) |-> toLowerCase(ws[i])]

\* C37: generateGrid accounts for every input word exactly once: the
\* placements and the skipped words together are as many as the input words;
\* each lowercased input word occurs among the placements' words and the
\* lowercased skipped words, taken together, as often as among the lowercased
\* input; a placement holds a lowercased input word and skipped holds input
\* words as given, none more often than the input does.
C37_EveryWordAccountedOnce ==
  Returned =>
    /\ Len(placements) + Len(skipped) = Len(words)
    /\ \A i \in 1..Len(placements) :
         \E k \in 1..Len(words) : placements[i].word = toLowerCase(words[k])
    /\ \A i \in 1..Len(skipped) : Count(skipped, skipped[i]) <= Count(words, skipped[i])
    /\ \A k \in 1..Len(words) :
         LET lower == toLowerCase(words[k])
         IN  Count(Lowered(words), lower)
               = Count(PlacedWords, lower) + Count(Lowered(skipped), lower)

\* The same mixed-case word was given twice; one occurrence was placed in
\* lowercase, the other was skipped and is kept as given.
C37_Witness ==
  /\ Returned
  /\ words = << <<"A", "b">>, <<"A", "b">> >>
  /\ PlacedWords = << <<"a", "b">> >>
  /\ skipped = << <<"A", "b">> >>

\* The word the loop is at is longer than the grid's side.
LongerThanSide == idx <= Len(sorted) /\ Len(toLowerCase(sorted[idx])) > gridSize

\* Some cell of the candidate lies outside the grid.
LeavesGrid(word, row, col, k) ==
  \E i \in 0..(Len(word) - 1) :
    LET r == row + i * DIRECTIONS[k][1]
        c == col + i * DIRECTIONS[k][2]
    IN  r < 0 \/ r >= gridSize \/ c < 0 \/ c >= gridSize

\* C38: no placement holds a word longer than gridSize. A word longer than
\* gridSize but within floor(sqrt(2) * gridSize) is handed to tryPlaceWord;
\* every candidate of it leaves the grid, so none is feasible; the loop
\* moves past it only by pushing it on skipped after all 200 candidates were
\* tested, with grid and placements as they were.
C38_LongerThanSideNeverPlaced ==
  /\ [](\A i \in 1..Len(placements) : Len(placements[i].word) <= gridSize)
  /\ []((LongerThanSide /\ pc \in {"place", "trying"}) =>
          LET lower == toLowerCase(sorted[idx])
          IN  \A row \in 0..(gridSize - 1), col \in 0..(gridSize - 1), k \in 1..Len(DIRECTIONS) :
                /\ LeavesGrid(lower, row, col, k)
                /\ ~canPlace(grid, lower, row, col, DIRECTIONS[k][1], DIRECTIONS[k][2]))
  /\ [][(LongerThanSide /\ pc = "place"
           /\ Len(toLowerCase(sorted[idx])) <= MaxLength(gridSize))
          => /\ pc' = "trying"
             /\ tried' = Append(tried, toLowerCase(sorted[idx]))
             /\ skipped' = skipped]_vars
  /\ [][(LongerThanSide /\ pc = "trying") =>
          /\ grid' = grid
          /\ placements' = placements
          /\ Some(grid) = gridAtCall
          /\ \/ pc' = "trying" /\ idx' = idx /\ skipped' = skipped
             \/ /\ tested = 200
                /\ idx' = idx + 1
                /\ skipped' = Append(skipped, sorted[idx])]_vars

\* A mixed-case four-letter word on the 3x3 grid passed the length rule, went
\* through all 200 candidates and has just been skipped as given, the grid
\* still empty; a three-letter word is next.
C38_Witness ==
  /\ pc = "place"
  /\ gridSize = 3
  /\ words = << <<"a", "b", "a">>, <<"B", "a", "b", "a">> >>
  /\ idx = 2
  /\ tested = 200
  /\ tried = << <<"b", "a", "b", "a">> >>
  /\ skipped = << <<"B", "a", "b", "a">> >>
  /\ placements = <<>>
  /\ grid = createEmptyGrid(3)

\* The fields of one SelectionResult agree with each other and with the grid.
ConsistentResult(g, r) ==
  /\ r.found => r.valid
  /\ r.found <=> r.word # None
  /\ r.found <=> r.startCell # None
  /\ r.found =>
       /\ Len(r.cells) >= 1
       /\ r.startCell = Some(r.cells[1])
       /\ r.word = Some(toLowerCase(ReadCells(g, r.cells)))
  /\ (r.found /\ Len(r.cells) >= 2) =>
       /\ r.direction # Null
       /\ \A i \in 2..Len(r.cells) : r.direction = NameOfStep(Delta(r.cells, i))
  /\ ~r.valid => r = INVALID

\* C39: every SelectionResult is consistent: found implies valid; found holds
\* exactly when word is set and exactly when startCell is set; a found result
\* starts at cells[0] and its cells read, lowercased, the word; with two or
\* more cells its direction names the step between consecutive cells; an
\* invalid result has no cells, no word, no direction and no startCell.
C39_ResultConsistent ==
  Selected => \A r \in result : ConsistentResult(grid, r)

\* A selection of three cells matched a target backwards: the result is found,
\* its cells are the selection reversed, and the word differs from its reverse.
C39_Witness ==
  /\ Selected
  /\ \E r \in result :
       /\ r.found
       /\ Len(r.cells) = 3
       /\ r.cells = Reverse(Collapse(selCells))
       /\ r.word # Some(Reverse(The(r.word)))
       /\ ConsistentResult(grid, r)

Elements(s) == { s[i] : i \in 1..Len(s) }

\* Every target word of the round is in foundWords, ignoring case.
AllTargetsIn(foundWords, targets) ==
  \A i \in 1..Len(targets) :
    \E k \in 1..Len(foundWords) : toLowerCase(foundWords[k]) = toLowerCase(targets[i])

\* Words a word-found event may carry: the board's targets and the words handed
\* to isGameWon elsewhere.
EventWords == Elements(gameBoard.targetWords) \cup WonVocabulary

\* C31: a word-found event that arrives while no round is active, or for a
\* word already in foundWords, changes nothing; any other event appends its
\* word once, so foundWords never holds a word twice. A round is ended as won
\* (win view opened, one iteration recorded) by the first event after which
\* every target word is found and by no other step - while a round with
\* targets is active some target is still missing - and never in a round
\* without target words.
C31_WordFoundHandled ==
  /\ [](\A word \in EventWords :
          LET out == wordFound(state, word)
          IN  IF ~state.gameActive \/ word \in Elements(state.foundWords)
              THEN out = [state |-> state, won |-> FALSE]
              ELSE /\ out.state.foundWords = Append(state.foundWords, word)
                   /\ out.won = (Len(state.words) > 0
                                 /\ AllTargetsIn(out.state.foundWords, state.words))
                   /\ out.state.gameActive = ~out.won)
  /\ [](\A i, k \in 1..Len(state.foundWords) :
          state.foundWords[i] = state.foundWords[k] => i = k)
  /\ []((state.gameActive /\ Len(state.words) > 0)
          => ~AllTargetsIn(state.foundWords, state.words))
  /\ [][recordCalls' # recordCalls =>
          /\ state.gameActive /\ ~state'.gameActive
          /\ Len(state.words) > 0
          /\ Len(state'.foundWords) = Len(state.foundWords) + 1
          /\ ~AllTargetsIn(state.foundWords, state.words)
          /\ AllTargetsIn(state'.foundWords, state.words)
          /\ Len(recordCalls') = Len(recordCalls) + 1
          /\ recordCalls'[Len(recordCalls')].words = state.words
          /\ ui'.winModal = "win"]_vars
  /\ [][(state.gameActive /\ Len(state'.foundWords) = Len(state.foundWords) + 1
           /\ Len(state.words) > 0 /\ AllTargetsIn(state'.foundWords, state.words))
          => /\ Len(recordCalls') = Len(recordCalls) + 1
             /\ ~state'.gameActive
             /\ ui'.winModal = "win"]_vars
  /\ [][(ui'.winModal = "win" /\ ui.winModal # "win") => recordCalls' # recordCalls]_vars

\* A round with two target words was won by the second word found and recorded
\* once; since then the round is over, so a further event changes nothing.
C31_Witness ==
  /\ Len(state.words) = 2
  /\ Len(state.foundWords) = 2
  /\ ~state.gameActive
  /\ Len(recordCalls) = 1
  /\ recordCalls[1].words = state.words
  /\ ui.winModal = "win"
  /\ wordFound(state, state.words[1]) = [state |-> state, won |-> FALSE]

\* The call waits for getWords, which it called right after fetchWords failed:
\* it made no addWords call.
FetchFailed(f) ==
  /\ f.pc = "getting"
  /\ Len(f.made) = 2
  /\ f.made[1].service = "fetchWords"
  /\ f.made[2].service = "getWords"

\* C32, as claimed: when fetchWords fails, the error is caught - the next call
\* startGame makes is getWords, not addWords - and startGame does not fail:
\* from there the call either goes into generateGrid, or, getWords having
\* yielded fewer than 3 words, shows the error, generates no grid and leaves
\* no round active.
C32_Original ==
  [][\A c \in 1..MaxStartCalls :
       /\ (startCalls[c].pc = "fetching" /\ startCalls'[c].pc # "fetching")
            => startCalls'[c].pc \in {"adding", "getting"}
       /\ (startCalls[c].pc = "fetching" /\ startCalls'[c].pc = "getting")
            => FetchFailed(startCalls'[c])
       /\ (FetchFailed(startCalls[c]) /\ startCalls'[c] # startCalls[c])
            => \/ /\ startCalls'[c].pc = "generate"
                  /\ Len(startCalls'[c].words) >= 3
                  /\ pc' = "place"
               \/ /\ startCalls'[c].pc = "returned"
                  /\ ui'.winModal = "error"
                  /\ ~ui'.loading
                  /\ pc' = "app"
                  /\ ~state'.gameActive
                  /\ UNCHANGED <<state, genVars, wordList, gameBoard>>]_vars

\* What the code does when fetchWords fails: as claimed, except that the
\* getWords call it then makes can reject, and then the startGame call rejects
\* with it: no error is shown, no round becomes active and the start button
\* stays disabled.
C32_FailsOnlyWithGetWords ==
  [][\A c \in 1..MaxStartCalls :
       /\ (startCalls[c].pc = "fetching" /\ startCalls'[c].pc # "fetching")
            => startCalls'[c].pc \in {"adding", "getting"}
       /\ (startCalls[c].pc = "fetching" /\ startCalls'[c].pc = "getting")
            => FetchFailed(startCalls'[c])
       /\ (FetchFailed(startCalls[c]) /\ startCalls'[c] # startCalls[c])
            => \/ /\ startCalls'[c].pc = "generate"
                  /\ Len(startCalls'[c].words) >= 3
                  /\ pc' = "place"
               \/ /\ startCalls'[c].pc = "returned"
                  /\ ui'.winModal = "error"
                  /\ ~ui'.loading
                  /\ pc' = "app"
                  /\ ~state'.gameActive
                  /\ UNCHANGED <<state, genVars, wordList, gameBoard>>
               \/ /\ startCalls'[c].pc = "failed"
                  /\ ui' = ui /\ ui.loading
                  /\ ~state'.gameActive
                  /\ UNCHANGED <<state, pc, genVars, wordList, gameBoard>>]_vars

\* fetchWords failed, getWords rejected, and the startGame call has failed: no
\* round is active, the win dialog shows no error and the button is disabled.
C32_Witness ==
  /\ startCalls[1].pc = "failed"
  /\ Len(startCalls[1].made) = 2
  /\ startCalls[1].made[1].service = "fetchWords"
  /\ startCalls[1].made[2].service = "getWords"
  /\ startCalls[2].pc = "idle"
  /\ ~state.gameActive
  /\ ui = [loading |-> TRUE, winModal |-> "closed"]

\* The positions of the log that hold an entry of the given kind.
LogAt(kind) == { i \in 1..Len(retryCall.log) : retryCall.log[i].kind = kind }

\* C33: withRetry invokes fn at most retries times (3 when the argument is left
\* out) and never while an earlier invocation is pending; a success ends the
\* call at once with the value of that invocation; when every invocation
\* failed the call rejects, after exactly retries invocations, with the error
\* of the last one; a wait is started only right after a failure and is always
\* followed by another invocation, so none follows the last failure.
C33_RetryBounded ==
  LET log == retryCall.log
      last == Len(log)
  IN  /\ Cardinality(LogAt("invoke")) <= retryCall.retries
      /\ \A i \in LogAt("invoke") :
           /\ i < last => log[i + 1].kind \in {"ok", "err"}
           /\ i = last => retryCall.pc = "invoked"
      /\ \A i \in LogAt("ok") :
           /\ i = last
           /\ retryCall.pc = "returned"
           /\ retryCall.outcome = Some(log[i].v)
      /\ retryCall.pc = "returned" => last \in LogAt("ok")
      /\ retryCall.pc = "rejected" =>
           /\ LogAt("ok") = {}
           /\ Cardinality(LogAt("invoke")) = retryCall.retries
           /\ last > 0 => /\ log[last].kind = "err"
                          /\ retryCall.outcome = Some(log[last].v)
      /\ \A i \in LogAt("wait") :
           /\ i > 1 /\ log[i - 1].kind = "err"
           /\ i < last => log[i + 1].kind = "invoke"
           /\ i = last => /\ retryCall.pc \in {"waiting", "loop"}
                          /\ retryCall.attempt + 1 < retryCall.retries
                               \/ (retryCall.pc = "loop"
                                     /\ retryCall.attempt < retryCall.retries)

\* Called without a retries argument, fn failed three times with a wait after
\* the first and the second failure, and the call rejected with the last error.
C33_Witness ==
  /\ retryCall.pc = "rejected"
  /\ retryCall.retries = MAX_RETRIES
  /\ Cardinality(LogAt("invoke")) = 3
  /\ Cardinality(LogAt("wait")) = 2
  /\ retryCall.log[2] = LogEntry("err", 0, "e1")
  /\ retryCall.outcome = Some("e2")

\* The listener that ran last committed a selection: a pointer-up while a drag
\* was in progress, or Space/Enter while a keyboard selection was active.
Committed ==
  \/ boardOp.op = "pointerup" /\ boardOp.before.selecting
  \/ boardOp.op = "key-commit"

\* C34: a committed selection of two or more cells dispatches exactly one
\* event, word-found when checkSelection reports found for it and word-invalid
\* otherwise; one of fewer than two cells dispatches none; either way the
\* selection is empty afterwards.  A pointer-up with no drag in progress
\* dispatches nothing and changes neither the selection nor the modes.
C34_OneEventPerCommit ==
  /\ Committed =>
       /\ board.selCells = <<>>
       /\ IF Len(boardOp.before.selCells) >= 2
          THEN /\ Len(boardOp.events) = 1
               /\ boardOp.events[1].type =
                    IF checkSelection(board.grid, boardOp.before.selCells,
                                      board.targetWords).found
                    THEN "word-found" ELSE "word-invalid"
          ELSE boardOp.events = <<>>
  /\ (boardOp.op = "pointerup" /\ ~boardOp.before.selecting) =>
       /\ boardOp.events = <<>>
       /\ board.selCells = boardOp.before.selCells
       /\ board.selecting = boardOp.before.selecting
       /\ board.kbdMode = boardOp.before.kbdMode

\* Space/Enter has just committed a keyboard selection of three cells that
\* spell the target "aba", and word-found was dispatched for it.
C34_Witness ==
  /\ boardOp.op = "key-commit"
  /\ Len(boardOp.before.selCells) = 3
  /\ Len(boardOp.events) = 1
  /\ boardOp.events[1].type = "word-found"
  /\ boardOp.events[1].word = Some(<<"a", "b", "a">>)
  /\ board.selCells = <<>>

\* cells is a straight line from cell from to cell to: it starts at from, ends
\* at to, and every step is the same one of the 8 unit directions.
LineFromTo(cells, from, to) ==
  /\ cells # <<>>
  /\ cells[1] = from
  /\ cells[Len(cells)] = to
  /\ \E dr \in {-1, 0, 1}, dc \in {-1, 0, 1} :
       /\ <<dr, dc>> # <<0, 0>>
       /\ \A i \in 2..Len(cells) :
            /\ cells[i].row = cells[i - 1].row + dr
            /\ cells[i].col = cells[i - 1].col + dc

InsideGrid(cells, size) ==
  \A i \in 1..Len(cells) :
    /\ cells[i].row \in 0..(size - 1)
    /\ cells[i].col \in 0..(size - 1)

\* C35: after an arrow key pressed while the keyboard selection is active, the
\* selection is a straight line from the anchor to the focused cell, and every
\* cell of it lies inside the grid.
C35_Original ==
  (boardOp.op = "arrow" /\ board.kbdMode) =>
    /\ LineFromTo(board.selCells, The(board.kbdAnchor), The(board.focusedCell))
    /\ InsideGrid(board.selCells, GridLength(board.grid))

\* With no pointer in use: the focused cell is neither the anchor nor on a
\* row, column or diagonal through it, and the selection is the diagonal of
\* max(|rows|, |cols|) steps from the anchor, which ends on another cell than
\* the focused one.
C35_EndsElsewhere ==
  /\ boardOp.op = "arrow" /\ board.kbdMode /\ ~board.selecting
  /\ board.kbdAnchor = Some(Cell(0, 0))
  /\ board.focusedCell = Some(Cell(1, 2))
  /\ board.selCells = << Cell(0, 0), Cell(1, 1), Cell(2, 2) >>

\* With no pointer in use: the selection has a cell outside the grid.
C35_LeavesGrid ==
  /\ boardOp.op = "arrow" /\ board.kbdMode /\ ~board.selecting
  /\ board.kbdAnchor = Some(Cell(1, 0))
  /\ board.focusedCell = Some(Cell(0, 2))
  /\ board.selCells = << Cell(1, 0), Cell(0, 1), Cell(-1, 2) >>

\* With no pointer in use: the focus is back on the anchor and the selection
\* still has the cell it was extended to before.
C35_BackOnAnchor ==
  /\ boardOp.op = "arrow" /\ board.kbdMode /\ ~board.selecting
  /\ board.kbdAnchor = Some(Cell(0, 0))
  /\ board.focusedCell = Some(Cell(0, 0))
  /\ board.selCells = << Cell(0, 0), Cell(0, 1) >>

\* C36: _selecting and _kbdMode are never both true, whatever the order of the
\* pointer and key events.
C36_Original == ~(board.selecting /\ board.kbdMode)

\* Space or Enter was pressed on the focused cell while a drag was in
\* progress: the keyboard selection started and the drag is still on.
C36_BothModes ==
  /\ boardOp.op = "key-start"
  /\ boardOp.before.selecting /\ ~boardOp.before.kbdMode
  /\ board.selecting /\ board.kbdMode

\* What does hold: a pointer-down ends the keyboard selection, so the two
\* flags are never both true right after one, and neither is true after
\* setGrid; both become true only by Space or Enter during a drag.
C36_PointerDownEndsKbdMode ==
  /\ boardOp.op = "pointerdown" => (board.selecting /\ ~board.kbdMode)
  /\ boardOp.op = "setGrid" => (~board.selecting /\ ~board.kbdMode)
  /\ (board.selecting /\ board.kbdMode /\ ~(boardOp.before.selecting /\ boardOp.before.kbdMode))
       => boardOp.op = "key-start"

====
